---- MODULE Spec2Model ----
(***************************************************************************)
(* Model of the unbit bitstream pipeline (jowinter/unbit):                 *)
(*   - bitstream_engine : packet decoder over a span of 32-bit words       *)
(*   - config_engine    : per-SLR configuration state machine on top of it *)
(*   - config_context   : the per-SLR state (far, idcode, write mode, ...) *)
(*   - bitstream        : container, byte-level packet parser and loader   *)
(*                                                                         *)
(* A 32-bit word is the pair <<hi, lo>> of its 16-bit halves, so that all  *)
(* values of uint32_t (0xAA995566, 0xFFFFFFFF) are representable.          *)
(***************************************************************************)
EXTENDS Integers, Sequences, FiniteSets, TLC

\* ------------------------------------------------------------------------
\* Bounds of the model
\* ------------------------------------------------------------------------

\* Largest number of packets (nested packets included) in an engine stream.
MaxPackets == 2

\* Largest number of packets in a bitstream file handed to bitstream::load_bitstream
\* (besides the fixed families LoadFamilies).
MaxLoadPackets == 2

\* ------------------------------------------------------------------------
\* 32-bit words
\* ------------------------------------------------------------------------

Half == 256 * 256

\* uint32_t value hi * 2^16 + lo
Word(hi, lo) == <<hi, lo>>

\* A small number as a 32-bit word
Num(n) == <<n \div Half, n % Half>>

\* bitstream_engine::FPGA_SYNC_WORD_LE == 0xAA995566
FPGA_SYNC_WORD_LE == <<43673, 21862>>

\* ------------------------------------------------------------------------
\* config_reg / config_cmd / wmode enumerations
\* ------------------------------------------------------------------------

REG_CRC    == 0
REG_FAR    == 1
REG_FDRI   == 2
REG_FDRO   == 3
REG_CMD    == 4
REG_STAT   == 7
REG_MFWR   == 10
REG_IDCODE == 12
REG_RSVD30 == 30

CMD_NUL    == 0
CMD_WCFG   == 1
CMD_MFW    == 2
CMD_DESYNC == 13

read_only  == 0
write_once == 1
overwrite  == 2

\* packet opcodes as dispatched by bitstream_engine::parse_packet
OP_NOP   == 0
OP_READ  == 1
OP_WRITE == 2
OP_RSVD  == 3

\* ------------------------------------------------------------------------
\* Header decoding (bitstream_engine::parse_packet)
\* ------------------------------------------------------------------------

\* (hdr >> 29) & 0x7
PacketType(hdr) == hdr[1] \div 8192

\* (hdr >> 27) & 0x3
PktOp(hdr) == (hdr[1] \div 2048) % 4

\* (hdr >> 13) & 0x1F
PktReg(hdr) == (hdr[1] % 4) * 8 + (hdr[2] \div 8192)

\* hdr & 0x3FF
Type1WordCountPlus(hdr) == (hdr[2] % 1024) + 1
Type1WordCount(hdr) == hdr[2] % 1024

\* hdr_2 & 0x07FFFFFF
Type2WordCountWide(hdr) == (hdr[1] % 8192) * Half + hdr[2]
Type2WordCount(hdr) == (hdr[1] % 2048) * Half + hdr[2]

\* ------------------------------------------------------------------------
\* Packet construction (inputs of the model)
\* ------------------------------------------------------------------------

\* TYPE1 header: 001 | op | 0..0 | reg | 00 | word_count
T1(op, reg, n) == <<8192 + op * 2048 + reg \div 8, (reg % 8) * 8192 + n>>

\* TYPE2 header: 010 | op | word_count
T2(op, n) == <<2 * 8192 + op * 2048 + n \div Half, n % Half>>

\* Dummy pad word in front of the sync word
PadWord == <<65535, 65535>>

\* IDCODE values of the XC7Z010 and the XC7Z020
IdcodeA == <<882, 8339>>
IdcodeB == <<882, 28819>>

\* Two frames (one word per frame in the model)
FrameA == <<57005, 48879>>
FrameB == <<51966, 47806>>

PktCmd(c)    == <<T1(OP_WRITE, REG_CMD, 1), Num(c)>>
PktFar(v)    == <<T1(OP_WRITE, REG_FAR, 1), Num(v)>>
PktIdcode(v) == <<T1(OP_WRITE, REG_IDCODE, 1), v>>
PktFdri(f)   == <<T1(OP_WRITE, REG_FDRI, 1), f>>
PktMfwr      == <<T1(OP_WRITE, REG_MFWR, 1), Num(0)>>
PktSlr(inner) == <<T1(OP_WRITE, REG_RSVD30, Len(inner))>> \o inner

\* The packets engine streams are built from.
BasePackets ==
    { <<T1(OP_NOP, REG_CRC, 0)>>,                  \* NOP
      <<T1(OP_NOP, REG_CRC, 1024)>>,               \* NOP header with bit 10 of the count set
      PktCmd(CMD_NUL), PktCmd(CMD_WCFG), PktCmd(CMD_MFW), PktCmd(CMD_DESYNC),
      <<T1(OP_WRITE, REG_CMD, 0), T2(OP_WRITE, 0)>>, \* CMD write without a command code
      PktFar(1),
      PktIdcode(IdcodeA), PktIdcode(IdcodeB),
      PktFdri(FrameA),
      <<T1(OP_WRITE, REG_FDRI, 0), T2(OP_WRITE, 1), FrameB>>,   \* TYPE1/TYPE2 pair
      <<T1(OP_WRITE, REG_FAR, 0), T2(OP_NOP, 1), Num(2)>>,      \* pair, other op bits in TYPE2
      <<T1(OP_WRITE, REG_FDRI, 0), T2(OP_WRITE, 65537), FrameB>>, \* pair, payload too long
      PktMfwr,
      <<T1(OP_READ, REG_STAT, 1), Num(0)>>,        \* read packet
      <<T1(OP_RSVD, REG_CRC, 1), Num(0)>>,         \* packet with the reserved opcode
      <<T1(OP_WRITE, REG_FAR, 2), Num(2)>>,        \* FAR write of two words (eats one more)
      <<T2(OP_WRITE, 0)>>,                         \* freestanding TYPE2 header
      <<T1(OP_WRITE, REG_FDRI, 0)>>,               \* zero-count write, TYPE2 header missing
      <<FPGA_SYNC_WORD_LE>> }                      \* sync word in header position

RECURSIVE Bodies(_)
\* All packet sequences of exactly n packets; a write to RSVD30 counts as one
\* packet plus the packets of its nested sub-stream.
Bodies(n) ==
    IF n = 0 THEN { <<>> }
    ELSE { p \o r : p \in BasePackets, r \in Bodies(n - 1) }
         \cup UNION { { PktSlr(<<FPGA_SYNC_WORD_LE>> \o i) \o r :
                          i \in Bodies(k), r \in Bodies(n - 1 - k) } : k \in 0 .. (n - 1) }

\* The compressed-bitstream sequence of config_context.hpp: WCFG, FDRI f0 (FAR is 0),
\* MFW, (FAR 1, MFWR), (FAR 2, MFWR), WCFG, FAR 1, FDRI f1.
MfwSequence(f0, f1) ==
    <<FPGA_SYNC_WORD_LE>> \o PktCmd(CMD_WCFG) \o PktFdri(f0) \o PktCmd(CMD_MFW)
      \o PktFar(1) \o PktMfwr \o PktFar(2) \o PktMfwr
      \o PktCmd(CMD_WCFG) \o PktFar(1) \o PktFdri(f1)

MfwStreams == { MfwSequence(f0, f1) : f0 \in {FrameA, FrameB}, f1 \in {FrameA, FrameB} }

\* A packet, a nested sub-stream of two packets, and a packet after it: the master
\* SLR with one slave SLR (the nested sub-stream ends normally, by a rejected packet
\* or by a malformed header).
SlrStreams ==
    { <<FPGA_SYNC_WORD_LE>> \o a \o PktSlr(<<FPGA_SYNC_WORD_LE>> \o b \o c) \o d :
        a \in { PktCmd(CMD_WCFG), PktIdcode(IdcodeA), PktFar(1) },
        b \in { PktCmd(CMD_MFW), PktIdcode(IdcodeB), PktFar(2) },
        c \in { <<T1(OP_NOP, REG_CRC, 0)>>, <<T1(OP_RSVD, REG_CRC, 1), Num(0)>>,
                <<T2(OP_WRITE, 0)>> },
        d \in { <<T1(OP_NOP, REG_CRC, 0)>>, PktCmd(CMD_NUL) } }

\* Word streams handed to config_engine::process
EngineStreams ==
    { <<>>, <<PadWord>> }
    \cup { pre \o <<FPGA_SYNC_WORD_LE>> \o b :
             pre \in { <<>>, <<PadWord>> },
             b \in UNION { Bodies(n) : n \in 0 .. MaxPackets } }
    \cup MfwStreams
    \cup SlrStreams

\* ------------------------------------------------------------------------
\* State
\* ------------------------------------------------------------------------

VARIABLES
    cfg,        \* config_engine: the words handed to process (cfg_data)
    calls,      \* config_engine: active process_packets loops, outermost first:
                \*   [pos, end, valid] = pos, cfg_data.end(), pkt_valid (1-based, end exclusive)
    ctx,        \* config_engine::ctx_ : <<>> (null) or <<context>>
    guards,     \* old_context_ of the live context_switch_guard objects, outermost first
    pc,         \* "idle", "run", "error" (an exception is propagating), "done", "failed"
    result,     \* <<>> or <<[pos, valid]>>: the parser_status_type of the outermost call
    events,     \* history: the callbacks invoked so far, in order
    lastPkt,    \* history: <<>> or <<what parse_packet decoded for the latest header>>
    snap,       \* history: the value of ctx_ at the time each live guard was constructed
    scope,      \* history: for each live guard, the number of the context it activated
                \*   (0 for the root, else the index in events of the RSVD30 write)
    lastRestore \* history: <<>> or <<the latest destruction of a guard>>

engineVars ==
    <<cfg, calls, ctx, guards, pc, result, events, lastPkt, snap, scope, lastRestore>>

VARIABLES
    data_,           \* bitstream::data_ : the bytes of the file
    idcode,          \* load_bitstream: the expected IDCODE handed in by the caller
    accept_readback, \* load_bitstream: whether readback bitstreams are accepted
    last_op,         \* history: <<>> or <<the operation applied to the loaded bitstream>>
    stop_at,         \* parse: the callback returns false when called for the stop_at-th
                     \*   time (0: the callback always returns true)
    pcL,             \* "idle", "outer" (loop of parse over sub-streams), "inner" (packet
                     \*   loop of one sub-stream), "done", "failed" (exception)
    cur,             \* parse (all sub-streams): byte offset cur - start
    slr,             \* parse (all sub-streams): sub-stream counter
    base,            \* parse (one sub-stream): base_file_offset, the offset of its start
    cfg_pos,         \* parse (one sub-stream): byte offset of cfg_pos in data_
    cfg_end,         \* parse (one sub-stream): byte offset of cfg_end in data_
    current_write,   \* parse (one sub-stream)
    current_reg,     \* parse (one sub-stream)
    substreams,      \* constructor: slr_info of every sub-stream seen
    main_idcode,     \* constructor
    have_frame_data, \* constructor
    is_readback_,    \* bitstream::is_readback_
    slrs_,           \* bitstream::slrs_
    packets          \* history: the packets handed to the callback, in order

loadVars ==
    <<data_, idcode, accept_readback, stop_at, last_op, pcL, cur, slr, base, cfg_pos, cfg_end,
      current_write, current_reg, substreams, main_idcode, have_frame_data,
      is_readback_, slrs_, packets>>

VARIABLES
    frame_bits       \* the frame data of the bitstream handed to bram::inject and
                     \*   bram::extract: the bit positions in the buffer that hold a 1

bramVars == <<frame_bits>>

vars == <<engineVars, loadVars, bramVars>>

\* ------------------------------------------------------------------------
\* config_context
\* ------------------------------------------------------------------------

\* config_context::config_context
NewContext(slr_index) ==
    [ slr_index    |-> slr_index,
      far          |-> Num(0),
      idcode       |-> <<>>,
      write_mode   |-> read_only,
      write_bitmap |-> {} ]

\* config_context::set_far
SetFar(c, new_far) == [c EXCEPT !.far = new_far]

\* config_context::set_idcode
SetIdcodeKeep(c, new_idcode) ==
    IF c.idcode = <<>> THEN [c EXCEPT !.idcode = <<new_idcode>>] ELSE c
SetIdcode(c, new_idcode) == [c EXCEPT !.idcode = <<new_idcode>>]

\* config_context::set_write_mode
SetWriteMode(c, new_mode) == [c EXCEPT !.write_mode = new_mode]

\* config_context::can_write_frame
CanWriteFrame(c, frame_addr) ==
    IF c.write_mode = overwrite THEN TRUE
    ELSE IF c.write_mode = write_once THEN frame_addr \in c.write_bitmap
    ELSE FALSE

\* config_context::mark_frame_write
MarkFrameWrite(c, frame_addr) ==
    [c EXCEPT !.write_bitmap = c.write_bitmap \cup {frame_addr}]

\* ------------------------------------------------------------------------
\* bitstream_engine
\* ------------------------------------------------------------------------

\* bitstream_engine::synchronize over cfg[b .. e-1]: the position after the first
\* run of sync words, or e when there is none.
Synchronize(b, e) ==
    LET syncs == { i \in b .. (e - 1) : cfg[i] = FPGA_SYNC_WORD_LE }
        first == IF syncs = {} THEN e
                 ELSE CHOOSE i \in syncs : \A j \in syncs : i <= j
        rest  == { i \in first .. (e - 1) : cfg[i] # FPGA_SYNC_WORD_LE }
    IN  IF rest = {} THEN e
        ELSE CHOOSE i \in rest : \A j \in rest : i <= j

\* bitstream_engine::parse_packet up to the dispatch, over cfg[b .. e-1] with b < e.
\*   kind "sync"  : sync word tolerated, no callback
\*   kind "throw" : bitstream_error
\*   kind "pkt"   : a packet (op, reg) with payload cfg[dbeg .. dbeg+wc-1]
ParsePacket(b, e) ==
    LET hdr    == cfg[b]
        p1     == b + 1
        op     == PktOp(hdr)
        reg    == PktReg(hdr)
        wc1    == Type1WordCount(hdr)
        needT2 == wc1 = 0 /\ op # 0
        hdr2   == cfg[p1]
        p      == IF needT2 THEN p1 + 1 ELSE p1
        wc     == IF needT2 THEN Type2WordCount(hdr2) ELSE wc1
        out(kind, pos) ==
            [ kind |-> kind, hdrpos |-> b, pos |-> pos, op |-> op, reg |-> reg,
              wc1 |-> wc1, pair |-> needT2, dbeg |-> p, wc |-> wc ]
    IN  IF hdr = FPGA_SYNC_WORD_LE THEN
            [ kind |-> "sync", hdrpos |-> b, pos |-> p1, op |-> 0, reg |-> 0,
              wc1 |-> 0, pair |-> FALSE, dbeg |-> p1, wc |-> 0 ]
        ELSE IF PacketType(hdr) # 1 THEN
            [ kind |-> "throw", hdrpos |-> b, pos |-> p1, op |-> 0, reg |-> 0,
              wc1 |-> 0, pair |-> FALSE, dbeg |-> p1, wc |-> 0 ]
        ELSE IF needT2 /\ p1 = e THEN
            [ kind |-> "throw", hdrpos |-> b, pos |-> p1, op |-> op, reg |-> reg,
              wc1 |-> wc1, pair |-> FALSE, dbeg |-> p1, wc |-> 0 ]
        ELSE IF needT2 /\ PacketType(hdr2) # 2 THEN
            [ kind |-> "throw", hdrpos |-> b, pos |-> p, op |-> op, reg |-> reg,
              wc1 |-> wc1, pair |-> FALSE, dbeg |-> p, wc |-> 0 ]
        ELSE IF (e - p) < wc THEN out("throw", p)
        ELSE out("pkt", p + wc)

\* ------------------------------------------------------------------------
\* config_engine
\* ------------------------------------------------------------------------

Front(q) == SubSeq(q, 1, Len(q) - 1)
Last(q)  == q[Len(q)]

\* context_switch_guard::context_switch_guard: the context active while the guard lives
GuardEnter(active, new_context) == new_context

\* context_switch_guard::~context_switch_guard: the context active afterwards
\* (active is *context_ref_, old is old_context_; the two are swapped)
GuardLeaveKeep(active, old) == active
GuardLeave(active, old) == old

\* config_engine::create_context
CreateContext(new_slr_index) == <<NewContext(new_slr_index)>>

\* config_engine::on_config_write, case RSVD30: the index handed to on_config_slr
NextSlrIndexSame(c) == c.slr_index
NextSlrIndex(c) == c.slr_index + 1

\* config_engine::on_config_cmd with on_cmd_nul / on_cmd_wcfg / on_cmd_mfw
OnConfigCmdSwapped(c, cmd) ==
    IF cmd = Num(CMD_NUL) THEN SetWriteMode(c, read_only)
    ELSE IF cmd = Num(CMD_WCFG) THEN SetWriteMode(c, overwrite)
    ELSE IF cmd = Num(CMD_MFW) THEN SetWriteMode(c, write_once)
    ELSE c
OnConfigCmd(c, cmd) ==
    IF cmd = Num(CMD_NUL) THEN SetWriteMode(c, read_only)
    ELSE IF cmd = Num(CMD_WCFG) THEN SetWriteMode(c, write_once)
    ELSE IF cmd = Num(CMD_MFW) THEN SetWriteMode(c, overwrite)
    ELSE c

\* config_engine::on_config_idcode
OnConfigIdcode(c, new_idcode) == SetIdcode(c, new_idcode)

\* config_engine::on_config_far
OnConfigFar(c, new_far) == SetFar(c, new_far)

\* config_engine::on_config_fdri (empty body)
OnConfigFdri(c, dbeg, wc) == c

\* config_engine::on_config_mfwr (empty body)
OnConfigMfwr(c, dbeg, wc) == c

\* config_engine::get_context (only used while a context is active)
Active == ctx[1]

Top == Last(calls)

\* The loop condition of bitstream_engine::process_packets for the innermost call
Looping == pc = "run" /\ Top.valid /\ Top.pos # Top.end

\* What parse_packet decodes at the current position
Pkt == ParsePacket(Top.pos, Top.end)

\* std::tie(pos, pkt_valid) = parse_packet(...)
SetTopStop(pos, valid) ==
    [calls EXCEPT ![Len(calls)] = [pos |-> pos, end |-> Top.end, valid |-> FALSE]]
SetTop(pos, valid) ==
    [calls EXCEPT ![Len(calls)] = [pos |-> pos, end |-> Top.end, valid |-> valid]]

\* The record of one callback invocation
Event(r) ==
    [ hdrpos |-> r.hdrpos, op |-> r.op, reg |-> r.reg, dbeg |-> r.dbeg, wc |-> r.wc,
      slr_index |-> Active.slr_index, cid |-> Last(scope),
      mode |-> Active.write_mode, idcode |-> Active.idcode ]

\* History of the latest header: what was decoded, and the end of the span it was read from
Decoded(r) ==
    lastPkt' = <<[ kind |-> r.kind, hdrpos |-> r.hdrpos, pos |-> r.pos, op |-> r.op,
                   reg |-> r.reg, wc1 |-> r.wc1, pair |-> r.pair, dbeg |-> r.dbeg,
                   wc |-> r.wc, end |-> Top.end ]>>

\* config_engine::process_packets: root context, then bitstream_engine::process_packets
\* synchronizes (is_synchronized is passed on as false)
ProcessPackets ==
    /\ pc = "idle"
    /\ guards' = Append(guards, ctx)
    /\ snap' = Append(snap, ctx)
    /\ scope' = Append(scope, 0)
    /\ ctx' = GuardEnter(ctx, CreateContext(0))
    /\ calls' = <<[pos |-> Synchronize(1, Len(cfg) + 1), end |-> Len(cfg) + 1, valid |-> TRUE]>>
    /\ pc' = "run"
    /\ UNCHANGED <<cfg, result, events, lastPkt, lastRestore, loadVars, bramVars>>

\* parse_packet: a sync word where a header is expected
TolerateSync ==
    /\ Looping /\ Pkt.kind = "sync"
    /\ calls' = SetTop(Pkt.pos, TRUE)
    /\ Decoded(Pkt)
    /\ UNCHANGED <<cfg, ctx, guards, pc, result, events, snap, scope, lastRestore, loadVars, bramVars>>

\* parse_packet throws before any callback (bad header, missing TYPE2, payload too long)
ParseError ==
    /\ Looping /\ Pkt.kind = "throw"
    /\ pc' = "error"
    /\ Decoded(Pkt)
    /\ UNCHANGED <<cfg, calls, ctx, guards, result, events, snap, scope, lastRestore, loadVars, bramVars>>

\* bitstream_engine::on_config_nop
OnConfigNop ==
    /\ Looping /\ Pkt.kind = "pkt" /\ Pkt.op = OP_NOP
    /\ events' = Append(events, Event(Pkt))
    /\ calls' = SetTop(Pkt.pos, TRUE)
    /\ Decoded(Pkt)
    /\ UNCHANGED <<cfg, ctx, guards, pc, result, snap, scope, lastRestore, loadVars, bramVars>>

\* bitstream_engine::on_config_read
OnConfigRead ==
    /\ Looping /\ Pkt.kind = "pkt" /\ Pkt.op = OP_READ
    /\ events' = Append(events, Event(Pkt))
    /\ calls' = SetTop(Pkt.pos, TRUE)
    /\ Decoded(Pkt)
    /\ UNCHANGED <<cfg, ctx, guards, pc, result, snap, scope, lastRestore, loadVars, bramVars>>

\* bitstream_engine::on_config_rsvd: rejects the packet, the loop stops
OnConfigRsvd ==
    /\ Looping /\ Pkt.kind = "pkt" /\ Pkt.op = OP_RSVD
    /\ events' = Append(events, Event(Pkt))
    /\ calls' = SetTop(Pkt.pos, FALSE)
    /\ Decoded(Pkt)
    /\ UNCHANGED <<cfg, ctx, guards, pc, result, snap, scope, lastRestore, loadVars, bramVars>>

\* The registers on_config_write reads data[0] of
NeedsData(reg) == reg \in {REG_CMD, REG_IDCODE, REG_FAR}

\* config_engine::on_config_write for every register but RSVD30
OnConfigWrite ==
    /\ Looping /\ Pkt.kind = "pkt" /\ Pkt.op = OP_WRITE /\ Pkt.reg # REG_RSVD30
    /\ ~(NeedsData(Pkt.reg) /\ Pkt.wc < 1)
    /\ LET c == Active
           d == cfg[Pkt.dbeg]
       IN  ctx' = << CASE Pkt.reg = REG_CMD    -> OnConfigCmd(c, d)
                       [] Pkt.reg = REG_IDCODE -> OnConfigIdcode(c, d)
                       [] Pkt.reg = REG_FAR    -> OnConfigFar(c, d)
                       [] Pkt.reg = REG_FDRI   -> OnConfigFdri(c, Pkt.dbeg, Pkt.wc)
                       [] Pkt.reg = REG_MFWR   -> OnConfigMfwr(c, Pkt.dbeg, Pkt.wc)
                       [] OTHER                -> c >>
    /\ events' = Append(events, Event(Pkt))
    /\ calls' = SetTop(Pkt.pos, TRUE)
    /\ Decoded(Pkt)
    /\ UNCHANGED <<cfg, guards, pc, result, snap, scope, lastRestore, loadVars, bramVars>>

\* config_engine::on_config_write throws: CMD, IDCODE or FAR write without a data word
OnConfigWriteError ==
    /\ Looping /\ Pkt.kind = "pkt" /\ Pkt.op = OP_WRITE
    /\ NeedsData(Pkt.reg) /\ Pkt.wc < 1
    /\ events' = Append(events, Event(Pkt))
    /\ pc' = "error"
    /\ Decoded(Pkt)
    /\ UNCHANGED <<cfg, calls, ctx, guards, result, snap, scope, lastRestore, loadVars, bramVars>>

\* config_engine::on_config_write, case RSVD30 -> on_config_slr: a guard switches to a
\* new context and the payload is processed as a stream of its own.  The caller's
\* parse_packet has already advanced past the payload and returns true afterwards.
OnConfigSlr ==
    /\ Looping /\ Pkt.kind = "pkt" /\ Pkt.op = OP_WRITE /\ Pkt.reg = REG_RSVD30
    /\ events' = Append(events, Event(Pkt))
    /\ guards' = Append(guards, ctx)
    /\ snap' = Append(snap, ctx)
    /\ scope' = Append(scope, Len(events) + 1)
    /\ ctx' = GuardEnter(ctx, CreateContext(NextSlrIndex(Active)))
    /\ calls' = Append(SetTop(Pkt.pos, TRUE),
                       [ pos |-> Synchronize(Pkt.dbeg, Pkt.dbeg + Pkt.wc),
                         end |-> Pkt.dbeg + Pkt.wc, valid |-> TRUE ])
    /\ Decoded(Pkt)
    /\ UNCHANGED <<cfg, pc, result, lastRestore, loadVars, bramVars>>

\* The destruction of the innermost guard
Restore(how) ==
    /\ ctx' = GuardLeave(ctx, Last(guards))
    /\ guards' = Front(guards)
    /\ snap' = Front(snap)
    /\ scope' = Front(scope)
    /\ lastRestore' = <<[ how |-> how, depth |-> Len(guards) - 1, dropped |-> ctx,
                           expected |-> Last(snap), restored |-> ctx' ]>>

\* on_config_slr returns: the nested loop has ended (its status is discarded)
ReturnSlr ==
    /\ pc = "run" /\ Len(calls) > 1 /\ ~Looping
    /\ calls' = Front(calls)
    /\ Restore("return")
    /\ UNCHANGED <<cfg, pc, result, events, lastPkt, loadVars, bramVars>>

\* config_engine::process_packets returns the status of the outermost loop
Finish ==
    /\ pc = "run" /\ Len(calls) = 1 /\ ~Looping
    /\ result' = <<[pos |-> Top.pos, valid |-> Top.valid]>>
    /\ calls' = <<>>
    /\ Restore("return")
    /\ pc' = "done"
    /\ UNCHANGED <<cfg, events, lastPkt, loadVars, bramVars>>

\* A bitstream_error leaves one process_packets call: its guard is destroyed
Unwind ==
    /\ pc = "error"
    /\ calls' = Front(calls)
    /\ Restore("unwind")
    /\ pc' = IF Len(calls) = 1 THEN "failed" ELSE "error"
    /\ UNCHANGED <<cfg, result, events, lastPkt, loadVars, bramVars>>

\* ------------------------------------------------------------------------
\* bitstream: byte-level packet parser and loader
\* ------------------------------------------------------------------------

\* The four bytes of a word, most significant first
WordBytes(w) == << w[1] \div 256, w[1] % 256, w[2] \div 256, w[2] % 256 >>

RECURSIVE Flatten(_)
\* The bytes of a sequence of words
Flatten(ws) == IF ws = <<>> THEN <<>> ELSE WordBytes(Head(ws)) \o Flatten(Tail(ws))

\* SYNC_PATTERN
SYNC_PATTERN == WordBytes(FPGA_SYNC_WORD_LE)

\* SYNC_WORD (the sync pattern as decoded packet header)
SYNC_WORD == FPGA_SYNC_WORD_LE

\* 0xFFFFFFFF: no IDCODE found / no expectation
NoIdcode == <<65535, 65535>>

\* 0xFFFFFFFF in slr_info::sync_offset: not latched yet
NoSyncOffset == 0 - 1

\* 0xFFFFFFFF in current_reg: no TYPE1 packet seen yet
NoReg == 0 - 1

\* slr_info::slr_info
NewSlrInfo ==
    [ sync_offset |-> NoSyncOffset, frame_data_offset |-> 0, frame_data_size |-> 0,
      idcode |-> NoIdcode ]

\* data_[o] for a byte offset o
ByteAt(o) == data_[o + 1]

\* The big-endian word at byte offset o
ReadWord(o) ==
    << ByteAt(o) * 256 + ByteAt(o + 1), ByteAt(o + 2) * 256 + ByteAt(o + 3) >>

\* std::search(start, end, SYNC_PATTERN): offset of the first sync pattern at or after
\* from, Len(data_) when there is none
SearchSync(from) ==
    LET hits == { o \in from .. (Len(data_) - 4) :
                    \A k \in 0 .. 3 : ByteAt(o + k) = SYNC_PATTERN[k + 1] }
    IN  IF hits = {} THEN Len(data_)
        ELSE CHOOSE o \in hits : \A q \in hits : o <= q

\* Words per configuration frame, scaled down (the devices of the catalog have 93 or more)
WordsPerFrame == 2

\* The devices fpga_by_idcode finds
KnownIdcodes == { IdcodeA, IdcodeB }

\* fpga::frame_size: the size of one frame in bytes
FpgaFrameSizeNone(id) == 0
FpgaFrameSize(id) == WordsPerFrame * 4

\* bitstream::parse (one sub-stream): one iteration of the packet loop up to the
\* callback, for the header at cfg_pos.
\*   kind "sync"  : sync word, the next sub-stream follows (break)
\*   kind "throw" : std::invalid_argument
\*   kind "pkt"   : the packet handed to the callback
ParseHeader ==
    LET hdr   == ReadWord(cfg_pos)
        p     == cfg_pos + 4
        ptype == PacketType(hdr)
        op    == IF ptype = 2 THEN (IF current_write THEN OP_WRITE ELSE OP_NOP)
                 ELSE PktOp(hdr)
        reg   == IF ptype = 1 THEN PktReg(hdr) ELSE current_reg
        wc    == IF ptype = 1 THEN hdr[2] % 2048
                 ELSE IF ptype = 2 THEN Type2WordCount(hdr)
                 ELSE 0
        kind  == IF ptype \in {1, 2}
                 THEN (IF wc * 4 > cfg_end - p THEN "throw" ELSE "pkt")
                 ELSE IF hdr = SYNC_WORD THEN "sync" ELSE "throw"
    IN  [ kind |-> kind, offset |-> cfg_pos - base, storage_offset |-> cfg_pos,
          stream_index |-> slr, hdr |-> hdr, packet_type |-> ptype, op |-> op,
          reg |-> reg, word_count |-> wc, payload_start |-> p,
          payload_end |-> p + wc * 4 ]

\* The callback of bitstream::bitstream(std::istream&, uint32_t, bool) for packet pkt:
\* the new values of the constructor's state, or throw
LoadCallback(pkt) ==
    LET grown == IF pkt.stream_index >= Len(substreams)
                 THEN Append(substreams, NewSlrInfo) ELSE substreams
        i     == pkt.stream_index + 1
        self  == grown[i]
        latched == IF self.sync_offset = NoSyncOffset
                   THEN [self EXCEPT !.sync_offset = pkt.offset] ELSE self
        extracted_idcode == ReadWord(pkt.payload_start)
        raise == [ throw |-> TRUE, substreams |-> grown, main_idcode |-> main_idcode,
                   have_frame_data |-> have_frame_data, is_readback_ |-> is_readback_ ]
        keep(info, main, have, rb) ==
                 [ throw |-> FALSE, substreams |-> [grown EXCEPT ![i] = info],
                   main_idcode |-> main, have_frame_data |-> have, is_readback_ |-> rb ]
        frame(off) == [latched EXCEPT !.frame_data_offset = pkt.storage_offset + 4 + off,
                                      !.frame_data_size =
                                          (pkt.payload_end - pkt.payload_start) - off]
    IN  IF pkt.stream_index >= Len(grown) THEN raise       \* substreams.at: out of range
        ELSE IF pkt.op = OP_WRITE /\ pkt.reg = REG_IDCODE /\ pkt.word_count > 0 THEN
            IF self.idcode # NoIdcode /\ self.idcode # extracted_idcode THEN raise
            ELSE keep([latched EXCEPT !.idcode = extracted_idcode],
                      IF main_idcode = NoIdcode THEN extracted_idcode ELSE main_idcode,
                      have_frame_data, is_readback_)
        ELSE IF pkt.op = OP_WRITE /\ pkt.reg = REG_FDRI /\ pkt.word_count > 0 THEN
            IF self.frame_data_size > 0 THEN raise
            ELSE IF have_frame_data /\ is_readback_ THEN raise
            ELSE keep(frame(0), main_idcode, TRUE, FALSE)
        ELSE IF pkt.op = OP_NOP /\ pkt.reg = REG_FDRO /\ pkt.word_count > 0 THEN
            IF ~accept_readback THEN raise
            ELSE IF self.frame_data_size > 0 THEN raise
            ELSE IF have_frame_data /\ ~is_readback_ THEN raise
            ELSE IF main_idcode \notin KnownIdcodes THEN raise   \* fpga_by_idcode
            ELSE IF pkt.payload_end - pkt.payload_start < FpgaFrameSize(main_idcode)
                 THEN raise
            ELSE keep(frame(FpgaFrameSize(main_idcode)), main_idcode, TRUE, TRUE)
        ELSE keep(latched, main_idcode, have_frame_data, is_readback_)

\* The write to register 0b11110 with payload that starts the next sub-stream
IsSlrSwitch(pkt) == pkt.op = OP_WRITE /\ pkt.reg = REG_RSVD30 /\ pkt.word_count > 0

ctorVars == <<substreams, main_idcode, have_frame_data, is_readback_>>

\* bitstream::bitstream(std::istream&, uint32_t, bool) up to the call of parse
LoadBitstream ==
    /\ pcL = "idle"
    /\ pcL' = "outer"
    /\ cur' = 0 /\ slr' = 0
    /\ substreams' = <<>> /\ main_idcode' = NoIdcode
    /\ have_frame_data' = FALSE /\ is_readback_' = FALSE
    /\ UNCHANGED <<data_, idcode, accept_readback, stop_at, last_op, base, cfg_pos, cfg_end,
                   current_write, current_reg, slrs_, packets, engineVars, bramVars>>

\* parse (one sub-stream) is entered and finds the sync word
ParseEnter ==
    /\ pcL = "outer" /\ cur # Len(data_)
    /\ SearchSync(cur) # Len(data_)
    /\ LET sync_offset == (SearchSync(cur) - cur) + 4
           max_config_size == (Len(data_) - cur) - sync_offset
           trailing_extra_bytes == max_config_size % 4
       IN  /\ base' = cur
           /\ cfg_pos' = cur + sync_offset
           /\ cfg_end' = cur + sync_offset + (max_config_size - trailing_extra_bytes)
    /\ current_write' = FALSE /\ current_reg' = NoReg
    /\ pcL' = "inner"
    /\ UNCHANGED <<data_, idcode, accept_readback, stop_at, last_op, cur, slr, ctorVars, slrs_, packets,
                   engineVars, bramVars>>

\* parse (one sub-stream) is entered and finds no sync word
ParseNoSync ==
    /\ pcL = "outer" /\ cur # Len(data_)
    /\ SearchSync(cur) = Len(data_)
    /\ pcL' = "failed"
    /\ UNCHANGED <<data_, idcode, accept_readback, stop_at, last_op, cur, slr, base, cfg_pos, cfg_end,
                   current_write, current_reg, ctorVars, slrs_, packets, engineVars, bramVars>>

\* The packet loop is running (done is never set: the constructor's callback returns true)
InLoop == pcL = "inner" /\ cfg_pos # cfg_end

\* What the TYPE1 header of the packet selects for a following TYPE2 packet
Selected(pkt) ==
    /\ current_reg' = IF pkt.packet_type = 1 THEN pkt.reg ELSE current_reg
    /\ current_write' = IF pkt.packet_type = 1 THEN pkt.op = OP_WRITE ELSE current_write

\* One packet: decoded, handed to the callback, the loop goes on
LoadPacket ==
    /\ InLoop /\ ParseHeader.kind = "pkt"
    /\ ~LoadCallback(ParseHeader).throw
    /\ ~IsSlrSwitch(ParseHeader)
    /\ LET pkt == ParseHeader
           r   == LoadCallback(pkt)
       IN  /\ Selected(pkt)
           /\ cfg_pos' = pkt.payload_end
           /\ substreams' = r.substreams /\ main_idcode' = r.main_idcode
           /\ have_frame_data' = r.have_frame_data /\ is_readback_' = r.is_readback_
           /\ packets' = Append(packets, pkt)
    /\ UNCHANGED <<data_, idcode, accept_readback, stop_at, last_op, pcL, cur, slr, base, cfg_end, slrs_,
                   engineVars, bramVars>>

\* A write to register 0b11110 with payload: handed to the callback, then the loop is
\* left with cfg_pos at the payload start and parse returns
LoadSlrSwitch ==
    /\ InLoop /\ ParseHeader.kind = "pkt"
    /\ ~LoadCallback(ParseHeader).throw
    /\ IsSlrSwitch(ParseHeader)
    /\ LET pkt == ParseHeader
           r   == LoadCallback(pkt)
       IN  /\ Selected(pkt)
           /\ cfg_pos' = pkt.payload_start
           /\ cur' = pkt.payload_start
           /\ substreams' = r.substreams /\ main_idcode' = r.main_idcode
           /\ have_frame_data' = r.have_frame_data /\ is_readback_' = r.is_readback_
           /\ packets' = Append(packets, pkt)
    /\ slr' = slr + 1
    /\ pcL' = "outer"
    /\ UNCHANGED <<data_, idcode, accept_readback, stop_at, last_op, base, cfg_end, slrs_, engineVars, bramVars>>

\* A sync word in header position: cfg_pos goes back to it and parse returns
LoadSyncBreakRestart ==
    /\ InLoop /\ ParseHeader.kind = "sync"
    /\ cfg_pos' = cur
    /\ cur' = cur
    /\ slr' = slr + 1
    /\ pcL' = "outer"
    /\ UNCHANGED <<data_, idcode, accept_readback, stop_at, last_op, base, cfg_end, current_write,
                   current_reg, ctorVars, slrs_, packets, engineVars, bramVars>>
LoadSyncBreak ==
    /\ InLoop /\ ParseHeader.kind = "sync"
    /\ cfg_pos' = cfg_pos
    /\ cur' = cfg_pos
    /\ slr' = slr + 1
    /\ pcL' = "outer"
    /\ UNCHANGED <<data_, idcode, accept_readback, stop_at, last_op, base, cfg_end, current_write,
                   current_reg, ctorVars, slrs_, packets, engineVars, bramVars>>

\* parse throws: unknown packet type, or the payload exceeds the end of the bitstream
LoadParseError ==
    /\ InLoop /\ ParseHeader.kind = "throw"
    /\ pcL' = "failed"
    /\ UNCHANGED <<data_, idcode, accept_readback, stop_at, last_op, cur, slr, base, cfg_pos, cfg_end,
                   current_write, current_reg, ctorVars, slrs_, packets, engineVars, bramVars>>

\* The constructor's callback throws
LoadCallbackError ==
    /\ InLoop /\ ParseHeader.kind = "pkt"
    /\ LoadCallback(ParseHeader).throw
    /\ substreams' = LoadCallback(ParseHeader).substreams
    /\ packets' = Append(packets, ParseHeader)
    /\ pcL' = "failed"
    /\ UNCHANGED <<data_, idcode, accept_readback, stop_at, last_op, cur, slr, base, cfg_pos, cfg_end,
                   current_write, current_reg, main_idcode, have_frame_data, is_readback_,
                   slrs_, engineVars, bramVars>>

\* The packet loop ends at cfg_end and parse returns cfg_pos
ParseReturn ==
    /\ pcL = "inner" /\ cfg_pos = cfg_end
    /\ cur' = cfg_pos
    /\ slr' = slr + 1
    /\ pcL' = "outer"
    /\ UNCHANGED <<data_, idcode, accept_readback, stop_at, last_op, base, cfg_pos, cfg_end, current_write,
                   current_reg, ctorVars, slrs_, packets, engineVars, bramVars>>

\* The sub-streams with frame data, in order
Retained == SelectSeq(substreams, LAMBDA self : self.frame_data_size > 0)

\* Pass 2 of the constructor: the sub-streams with frame data become the SLRs
LoadRetain ==
    /\ pcL = "outer" /\ cur = Len(data_)
    /\ Retained # <<>>
    /\ slrs_' = Retained
    /\ pcL' = "done"
    /\ UNCHANGED <<data_, idcode, accept_readback, stop_at, last_op, cur, slr, base, cfg_pos, cfg_end,
                   current_write, current_reg, ctorVars, packets, engineVars, bramVars>>

\* Pass 2 of the constructor throws: no sub-stream has frame data
LoadNoFrameData ==
    /\ pcL = "outer" /\ cur = Len(data_)
    /\ Retained = <<>>
    /\ pcL' = "failed"
    /\ UNCHANGED <<data_, idcode, accept_readback, stop_at, last_op, cur, slr, base, cfg_pos, cfg_end,
                   current_write, current_reg, ctorVars, slrs_, packets, engineVars, bramVars>>

\* ------------------------------------------------------------------------
\* bitstream: operations on a loaded bitstream
\* ------------------------------------------------------------------------

RECURSIVE TotalFrameDataSize(_)
\* The sum of the frame data sizes of SLR descriptors
TotalFrameDataSize(infos) ==
    IF infos = <<>> THEN 0
    ELSE Head(infos).frame_data_size + TotalFrameDataSize(Tail(infos))

\* bitstream::bitstream(std::istream&, const bitstream&), configuration bitstream as
\* reference: the descriptors of the readback data, placed tightly from offset 0
TightSlrs(ref) ==
    [ i \in 1 .. Len(ref) |->
        [ NewSlrInfo EXCEPT !.frame_data_offset = TotalFrameDataSize(SubSeq(ref, 1, i - 1)),
                            !.frame_data_size = ref[i].frame_data_size,
                            !.idcode = ref[i].idcode ] ]

\* Raw readback data (the contents do not matter, the sizes do)
RawBuffers == { [i \in 1 .. n |-> 0] : n \in {0, 4, 8} }

\* bitstream::load_raw with the loaded bitstream as reference: the new bitstream
\* takes the place of the reference
LoadRaw ==
    /\ pcL = "done"
    /\ \E raw \in RawBuffers :
         /\ is_readback_ \/ ~(TotalFrameDataSize(slrs_) > Len(raw)
                              \/ TotalFrameDataSize(slrs_) < 4)
         /\ data_' = raw
         /\ slrs_' = IF is_readback_ THEN slrs_ ELSE TightSlrs(slrs_)
         /\ last_op' = <<[ name |-> "load_raw", reference_is_readback |-> is_readback_ ]>>
    /\ is_readback_' = TRUE
    /\ pcL' = "used"
    /\ UNCHANGED <<idcode, accept_readback, stop_at, cur, slr, base, cfg_pos, cfg_end,
                   current_write, current_reg, substreams, main_idcode, have_frame_data,
                   packets, engineVars, bramVars>>

\* bitstream::load_raw throws: the frame data of the reference does not fit
LoadRawError ==
    /\ pcL = "done"
    /\ ~is_readback_
    /\ \E raw \in RawBuffers :
         /\ TotalFrameDataSize(slrs_) > Len(raw) \/ TotalFrameDataSize(slrs_) < 4
         /\ data_' = raw
    /\ last_op' = <<[ name |-> "load_raw", reference_is_readback |-> FALSE ]>>
    /\ pcL' = "failed"
    /\ UNCHANGED <<idcode, accept_readback, stop_at, cur, slr, base, cfg_pos, cfg_end,
                   current_write, current_reg, ctorVars, slrs_, packets, engineVars, bramVars>>

\* Bit k of the byte x
Bit(x, k) == (x \div (2 ^ k)) % 2

\* The byte x with bit k set (value) or cleared
WithBit(x, k, value) == x - Bit(x, k) * (2 ^ k) + (IF value THEN 2 ^ k ELSE 0)

\* bitstream::map_frame_data_offset
MapFrameDataOffsetPlain(offset) == offset
MapFrameDataOffset(offset) == (offset - (offset % 4)) + (3 - (offset % 4))

\* bitstream::check_frame_data_range returns (slr(slr_idx) is slrs_.at(slr_idx))
FrameDataRangeOk(offset, length, slr_idx) ==
    /\ slr_idx < Len(slrs_)
    /\ ~(offset >= slrs_[slr_idx + 1].frame_data_size
         \/ slrs_[slr_idx + 1].frame_data_size - offset < length)

\* The index in data_ of byte byte_index of the frame data of an SLR
FrameDataIndexNoOffset(byte_index, slr_idx) == byte_index
FrameDataIndex(byte_index, slr_idx) == byte_index + slrs_[slr_idx + 1].frame_data_offset

\* The value bitstream::read_frame_data_bit returns
ReadBit(bit_offset, slr_idx) ==
    Bit(ByteAt(FrameDataIndex(MapFrameDataOffset(bit_offset \div 8), slr_idx)),
        bit_offset % 8) = 1

\* Arguments of the frame data accessors
BitOffsets == { 0, 7, 8, 31, 32, 39, 63, 64, 71 }
SlrIndices == 0 .. 2

\* The record of a call of a frame data accessor
Access(name, bit_offset, value, slr_idx, raised) ==
    <<[ name |-> name, bit_offset |-> bit_offset, value |-> value, slr_idx |-> slr_idx,
        raised |-> raised, before |-> data_,
        index |-> IF raised THEN 0 - 1
                  ELSE FrameDataIndex(MapFrameDataOffset(bit_offset \div 8), slr_idx) ]>>

opFrame ==
    <<idcode, accept_readback, stop_at, cur, slr, base, cfg_pos, cfg_end, current_write,
      current_reg, ctorVars, slrs_, packets, engineVars, bramVars>>

\* bitstream::read_frame_data_bit
ReadFrameDataBit ==
    /\ pcL = "done"
    /\ \E bit_offset \in BitOffsets, slr_idx \in SlrIndices :
         /\ FrameDataRangeOk(MapFrameDataOffset(bit_offset \div 8), 1, slr_idx)
         /\ last_op' = Access("read_frame_data_bit", bit_offset,
                              ReadBit(bit_offset, slr_idx), slr_idx, FALSE)
    /\ pcL' = "used"
    /\ UNCHANGED <<data_, opFrame>>

\* bitstream::read_frame_data_bit throws std::out_of_range
ReadFrameDataBitError ==
    /\ pcL = "done"
    /\ \E bit_offset \in BitOffsets, slr_idx \in SlrIndices :
         /\ ~FrameDataRangeOk(MapFrameDataOffset(bit_offset \div 8), 1, slr_idx)
         /\ last_op' = Access("read_frame_data_bit", bit_offset, FALSE, slr_idx, TRUE)
    /\ pcL' = "used"
    /\ UNCHANGED <<data_, opFrame>>

\* bitstream::write_frame_data_bit
WriteFrameDataBit ==
    /\ pcL = "done"
    /\ \E bit_offset \in BitOffsets, value \in BOOLEAN, slr_idx \in SlrIndices :
         /\ FrameDataRangeOk(MapFrameDataOffset(bit_offset \div 8), 1, slr_idx)
         /\ LET i == FrameDataIndex(MapFrameDataOffset(bit_offset \div 8), slr_idx)
            IN  data_' = [data_ EXCEPT ![i + 1] = WithBit(ByteAt(i), bit_offset % 8, value)]
         /\ last_op' = Access("write_frame_data_bit", bit_offset, value, slr_idx, FALSE)
    /\ pcL' = "used"
    /\ UNCHANGED opFrame

\* bitstream::write_frame_data_bit throws std::out_of_range
WriteFrameDataBitError ==
    /\ pcL = "done"
    /\ \E bit_offset \in BitOffsets, value \in BOOLEAN, slr_idx \in SlrIndices :
         /\ ~FrameDataRangeOk(MapFrameDataOffset(bit_offset \div 8), 1, slr_idx)
         /\ last_op' = Access("write_frame_data_bit", bit_offset, value, slr_idx, TRUE)
    /\ pcL' = "used"
    /\ UNCHANGED <<data_, opFrame>>

\* bitstream::strip_crc_checks: the packets its callback rewrites
IsCrcCheckNever(pkt) == FALSE
IsCrcCheck(pkt) == pkt.hdr = <<12288, 1>>

\* bitstream::strip_crc_checks: two NOP headers
CrcReplacementSwapped == <<32, 0, 0, 0, 48, 0, 0, 1>>
CrcReplacement == <<32, 0, 0, 0, 32, 0, 0, 0>>

\* bitstream::edit: the size of the packet handed to the callback, header included
PacketSize(pkt) == 4 + (pkt.payload_end - pkt.payload_start)

\* The buffer after the callback of strip_crc_checks has seen packet pkt
Stripped(pkt) ==
    IF IsCrcCheck(pkt)
    THEN [j \in 1 .. Len(data_) |->
            IF j - 1 \in pkt.storage_offset .. (pkt.storage_offset + 7)
            THEN CrcReplacement[j - pkt.storage_offset] ELSE data_[j]]
    ELSE data_

editFrame == <<idcode, accept_readback, stop_at, ctorVars, slrs_, packets, engineVars, bramVars>>

\* bitstream::strip_crc_checks calls edit, which calls parse on the whole buffer
StripCrcChecks ==
    /\ pcL = "done"
    /\ pcL' = "edit_outer"
    /\ cur' = 0 /\ slr' = 0
    /\ last_op' = <<[name |-> "strip_crc_checks", before |-> data_, round |-> 1]>>
    /\ UNCHANGED <<data_, base, cfg_pos, cfg_end, current_write, current_reg, editFrame>>

\* bitstream::strip_crc_checks is called once more, on the stripped bitstream
StripCrcChecksAgain ==
    /\ pcL = "used"
    /\ last_op # <<>> /\ last_op[1].name = "strip_crc_checks" /\ last_op[1].round = 1
    /\ pcL' = "edit_outer"
    /\ cur' = 0 /\ slr' = 0
    /\ last_op' = <<[name |-> "strip_crc_checks", before |-> data_, round |-> 2]>>
    /\ UNCHANGED <<data_, base, cfg_pos, cfg_end, current_write, current_reg, editFrame>>

\* edit: parse (one sub-stream) is entered and searches the sync word
EditEnter ==
    /\ pcL = "edit_outer" /\ cur # Len(data_)
    /\ IF SearchSync(cur) = Len(data_)
       THEN /\ pcL' = "failed"
            /\ UNCHANGED <<base, cfg_pos, cfg_end, current_write, current_reg>>
       ELSE LET sync_offset == (SearchSync(cur) - cur) + 4
                max_config_size == (Len(data_) - cur) - sync_offset
                trailing_extra_bytes == max_config_size % 4
            IN  /\ base' = cur
                /\ cfg_pos' = cur + sync_offset
                /\ cfg_end' = cur + sync_offset + (max_config_size - trailing_extra_bytes)
                /\ current_write' = FALSE /\ current_reg' = NoReg
                /\ pcL' = "edit_inner"
    /\ UNCHANGED <<data_, last_op, cur, slr, editFrame>>

\* edit: one iteration of the packet loop of parse, with the callback of
\* strip_crc_checks
EditStep ==
    /\ pcL = "edit_inner" /\ cfg_pos # cfg_end
    /\ LET pkt == ParseHeader
       IN  IF pkt.kind = "throw" \/ (pkt.kind = "pkt" /\ IsCrcCheck(pkt) /\ PacketSize(pkt) # 8)
           THEN /\ pcL' = "failed"
                /\ UNCHANGED <<data_, cur, slr, cfg_pos, current_write, current_reg>>
           ELSE IF pkt.kind = "sync"
           THEN /\ cur' = cfg_pos
                /\ slr' = slr + 1
                /\ pcL' = "edit_outer"
                /\ UNCHANGED <<data_, cfg_pos, current_write, current_reg>>
           ELSE /\ Selected(pkt)
                /\ data_' = Stripped(pkt)
                /\ IF IsSlrSwitch(pkt)
                   THEN /\ cfg_pos' = pkt.payload_start
                        /\ cur' = pkt.payload_start
                        /\ slr' = slr + 1
                        /\ pcL' = "edit_outer"
                   ELSE /\ cfg_pos' = pkt.payload_end
                        /\ UNCHANGED <<cur, slr, pcL>>
    /\ UNCHANGED <<last_op, base, cfg_end, editFrame>>

\* edit: the packet loop ends at cfg_end and parse returns cfg_pos
EditReturn ==
    /\ pcL = "edit_inner" /\ cfg_pos = cfg_end
    /\ cur' = cfg_pos
    /\ slr' = slr + 1
    /\ pcL' = "edit_outer"
    /\ UNCHANGED <<data_, last_op, base, cfg_pos, cfg_end, current_write, current_reg,
                   editFrame>>

\* edit: the whole buffer is parsed, strip_crc_checks returns
EditEnd ==
    /\ pcL = "edit_outer" /\ cur = Len(data_)
    /\ pcL' = "used"
    /\ UNCHANGED <<data_, last_op, cur, slr, base, cfg_pos, cfg_end, current_write,
                   current_reg, editFrame>>

\* ------------------------------------------------------------------------
\* bitstream::parse with a callback of the caller
\* ------------------------------------------------------------------------

\* The return value of the callback for the packet parse is about to hand to it
CallbackContinues == Len(packets) + 1 # stop_at

\* bitstream::parse (all sub-streams) is called
ParseAll ==
    /\ pcL = "idle"
    /\ pcL' = "outer"
    /\ cur' = 0 /\ slr' = 0
    /\ UNCHANGED <<data_, idcode, accept_readback, stop_at, last_op, base, cfg_pos, cfg_end,
                   current_write, current_reg, ctorVars, slrs_, packets, engineVars, bramVars>>

\* One packet: the callback returns true and the loop goes on
ParseContinue ==
    /\ InLoop /\ ParseHeader.kind = "pkt"
    /\ CallbackContinues /\ ~IsSlrSwitch(ParseHeader)
    /\ Selected(ParseHeader)
    /\ cfg_pos' = ParseHeader.payload_end
    /\ packets' = Append(packets, ParseHeader)
    /\ UNCHANGED <<data_, idcode, accept_readback, stop_at, last_op, pcL, cur, slr, base, cfg_end,
                   ctorVars, slrs_, engineVars, bramVars>>

\* A write to register 0b11110 with payload: the callback returns true, the loop is
\* left with cfg_pos at the payload start and parse (one sub-stream) returns
ParseSwitch ==
    /\ InLoop /\ ParseHeader.kind = "pkt"
    /\ CallbackContinues /\ IsSlrSwitch(ParseHeader)
    /\ Selected(ParseHeader)
    /\ cfg_pos' = ParseHeader.payload_start
    /\ cur' = ParseHeader.payload_start
    /\ slr' = slr + 1
    /\ packets' = Append(packets, ParseHeader)
    /\ pcL' = "outer"
    /\ UNCHANGED <<data_, idcode, accept_readback, stop_at, last_op, base, cfg_end, ctorVars,
                   slrs_, engineVars, bramVars>>

\* The callback returns false: done is set, the loop ends and parse (one sub-stream)
\* returns cfg_pos to the loop over the sub-streams
ParseStop ==
    /\ InLoop /\ ParseHeader.kind = "pkt"
    /\ ~CallbackContinues
    /\ Selected(ParseHeader)
    /\ LET p == IF IsSlrSwitch(ParseHeader) THEN ParseHeader.payload_start
                ELSE ParseHeader.payload_end
       IN  cfg_pos' = p /\ cur' = p
    /\ slr' = slr + 1
    /\ packets' = Append(packets, ParseHeader)
    /\ pcL' = "outer"
    /\ UNCHANGED <<data_, idcode, accept_readback, stop_at, last_op, base, cfg_end, ctorVars,
                   slrs_, engineVars, bramVars>>

\* The loop over the sub-streams ends: cur == end
ParseEnd ==
    /\ pcL = "outer" /\ cur = Len(data_)
    /\ pcL' = "done"
    /\ UNCHANGED <<data_, idcode, accept_readback, stop_at, last_op, cur, slr, base, cfg_pos,
                   cfg_end, current_write, current_reg, ctorVars, slrs_, packets,
                   engineVars, bramVars>>

\* ------------------------------------------------------------------------
\* Bitstream files (inputs of the loader)
\* ------------------------------------------------------------------------

\* n words of frame data
Words(n) == [i \in 1 .. n |-> FrameA]

\* The packets bitstream files are built from (as words)
LoadPackets ==
    { <<T1(OP_NOP, REG_CRC, 0)>>,
      PktIdcode(IdcodeA), PktIdcode(IdcodeB),
      PktFdri(FrameA),
      <<T1(OP_WRITE, REG_FDRI, 2), FrameA, FrameB>>,
      <<T1(OP_WRITE, REG_FDRI, 0), T2(OP_WRITE, 1), FrameB>>,
      <<T1(OP_READ, REG_FDRO, 0), T2(OP_READ, WordsPerFrame - 1)>>
          \o Words(WordsPerFrame - 1),                   \* readback data, too short
      <<T1(OP_READ, REG_FDRO, 0), T2(OP_READ, WordsPerFrame)>>
          \o Words(WordsPerFrame),                       \* readback data, pad frame only
      <<T1(OP_READ, REG_FDRO, 0), T2(OP_READ, WordsPerFrame + 1)>>
          \o Words(WordsPerFrame + 1),                   \* readback data, pad frame and a word
      <<T1(OP_WRITE, REG_CRC, 1), FrameB>>,  \* CRC check
      <<T1(OP_WRITE, REG_RSVD30, 1)>>,      \* the next word is the payload
      <<FPGA_SYNC_WORD_LE>>,
      <<Num(0)>> }                           \* no packet header

RECURSIVE LoadBodies(_)
LoadBodies(n) ==
    IF n = 0 THEN { <<>> }
    ELSE { p \o r : p \in LoadPackets, r \in LoadBodies(n - 1) }

\* A master sub-stream and a slave sub-stream behind a second sync word, each with an
\* IDCODE write and frame data
LoadFamilies ==
    { <<FPGA_SYNC_WORD_LE>> \o PktIdcode(a) \o PktFdri(FrameA)
        \o <<FPGA_SYNC_WORD_LE>> \o PktIdcode(b) \o PktFdri(FrameB) :
        a \in KnownIdcodes, b \in KnownIdcodes }

\* A complete bitstream followed by 1 to 3 extra bytes
LoadTrailing ==
    { Flatten(<<FPGA_SYNC_WORD_LE>> \o PktIdcode(IdcodeA) \o PktFdri(FrameA)) \o extra :
        extra \in { <<0>>, <<0, 0>>, <<0, 0, 0>> } }

\* The files: an optional pad byte, the sync word, packets
LoadFiles ==
    { <<>> }
    \cup { pre \o Flatten(<<FPGA_SYNC_WORD_LE>> \o b) :
             pre \in { <<>>, <<255>> },
             b \in UNION { LoadBodies(n) : n \in 0 .. MaxLoadPackets } }
    \cup { Flatten(f) : f \in LoadFamilies }
    \cup LoadTrailing

\* ------------------------------------------------------------------------
\* Block RAM tiles: bram::inject and bram::extract
\* ------------------------------------------------------------------------

\* std::out_of_range thrown by a mapping function
OutOfRange == 0 - 1

\* ramb36e1_map_data_bit / ramb36e1_map_parity_bit: the lookup tables
groupL_table == <<0, 8, 4, 12, 1, 9, 5, 13, 2, 10, 6, 14, 3, 11, 7, 15>>
groupH_table == <<0, 11, 1, 12, 2, 13, 3, 14, 5, 16, 6, 17, 7, 18, 8, 19>>
groupP_table == <<4, 15>>

\* ramb36e1_map_data_bit (block_scale is 0xCA)
ramb36e1_map_data_bit_swapped(data_offset) ==
    IF data_offset >= 32768 THEN OutOfRange
    ELSE ((data_offset \div 256) * 202 + groupH_table[((data_offset \div 16) % 16) + 1]) * 16
         + groupL_table[(data_offset % 16) + 1]
ramb36e1_map_data_bit(data_offset) ==
    IF data_offset >= 32768 THEN OutOfRange
    ELSE ((data_offset \div 256) * 202 + groupH_table[(data_offset % 16) + 1]) * 16
         + groupL_table[((data_offset \div 16) % 16) + 1]

\* ramb36e1_map_parity_bit
ramb36e1_map_parity_bit_groupH(parity_offset) ==
    IF parity_offset >= 4096 THEN OutOfRange
    ELSE ((parity_offset \div 32) * 202 + groupH_table[(parity_offset % 2) + 1]) * 16
         + groupL_table[((parity_offset \div 2) % 16) + 1]
ramb36e1_map_parity_bit(parity_offset) ==
    IF parity_offset >= 4096 THEN OutOfRange
    ELSE ((parity_offset \div 32) * 202 + groupP_table[(parity_offset % 2) + 1]) * 16
         + groupL_table[((parity_offset \div 2) % 16) + 1]

\* ramb36e2_map_data_bit: bit_table
ramb36e2_data_table ==
    <<0, 132, 12, 144, 24, 156, 36, 168, 60, 192, 72, 204, 84, 216, 96, 228,
       6, 138, 18, 150, 30, 162, 42, 174, 66, 198, 78, 210, 90, 222, 102, 234,
       3, 135, 15, 147, 27, 159, 39, 171, 63, 195, 75, 207, 87, 219, 99, 231,
       9, 141, 21, 153, 33, 165, 45, 177, 69, 201, 81, 213, 93, 225, 105, 237,
       2, 134, 14, 146, 26, 158, 38, 170, 62, 194, 74, 206, 86, 218, 98, 230,
       8, 140, 20, 152, 32, 164, 44, 176, 68, 200, 80, 212, 92, 224, 104, 236,
       5, 137, 17, 149, 29, 161, 41, 173, 65, 197, 77, 209, 89, 221, 101, 233,
       11, 143, 23, 155, 35, 167, 47, 179, 71, 203, 83, 215, 95, 227, 107, 239 >>

\* ramb36e2_map_parity_bit: bit_table
ramb36e2_parity_table ==
    <<48, 180, 54, 186, 51, 183, 57, 189, 50, 182, 56, 188, 53, 185, 59, 191 >>

\* ramb36e2_map_data_bit (block_scale is 0xBA0)
ramb36e2_map_data_bit(data_offset) ==
    IF data_offset >= 32768 THEN OutOfRange
    ELSE (data_offset \div 128) * 2976 + ramb36e2_data_table[(data_offset % 128) + 1]

\* ramb36e2_map_parity_bit
ramb36e2_map_parity_bit(parity_offset) ==
    IF parity_offset >= 4096 THEN OutOfRange
    ELSE (parity_offset \div 16) * 2976 + ramb36e2_parity_table[(parity_offset % 16) + 1]

\* ramb36e1::ramb36e1 and ramb36e2::ramb36e2: bram(x, y, 1024, 32, 4, ...)
Ramb36(primitive, x, y, bitstream_offset) ==
    [ primitive |-> primitive, x |-> x, y |-> y, is_top |-> FALSE,
      num_words |-> 1024, data_bits |-> 32, parity_bits |-> 4,
      bitstream_offset |-> bitstream_offset, slr |-> 0 ]

\* ramb18e1::ramb18e1: bram(x, 2 * y + is_top, 1024, 16, 4, ...), on the offset of ramb36
Ramb18(ramb36, is_top) ==
    [ primitive |-> "RAMB18E1", x |-> ramb36.x,
      y |-> 2 * ramb36.y + (IF is_top THEN 1 ELSE 0), is_top |-> is_top,
      num_words |-> 1024, data_bits |-> 16, parity_bits |-> 4,
      bitstream_offset |-> ramb36.bitstream_offset, slr |-> ramb36.slr ]

\* The tile RAMB36_X0Y0 of the XC7Z010 (brams_36), its two halves, and a RAMB36E2 tile
Ramb36X0Y0 == Ramb36("RAMB36E1", 0, 0, 15403712)
Ramb36e2X0Y0 == Ramb36("RAMB36E2", 0, 0, 0)
Tiles ==
    { Ramb36X0Y0, Ramb18(Ramb36X0Y0, FALSE), Ramb18(Ramb36X0Y0, TRUE), Ramb36e2X0Y0 }

\* ramb36e1::map_to_bitstream, ramb36e2::map_to_bitstream
Ramb36MapToBitstream(primitive, bitstream_offset, bit_addr, is_parity) ==
    LET rel == IF primitive = "RAMB36E2"
               THEN (IF is_parity THEN ramb36e2_map_parity_bit(bit_addr)
                     ELSE ramb36e2_map_data_bit(bit_addr))
               ELSE (IF is_parity THEN ramb36e1_map_parity_bit(bit_addr)
                     ELSE ramb36e1_map_data_bit(bit_addr))
    IN  IF rel = OutOfRange THEN OutOfRange ELSE bitstream_offset + rel

\* bram::map_to_bitstream of the tile t (ramb18e1::map_to_bitstream delegates to the
\* enclosing RAMB36E1)
MapToBitstream(t, bit_addr, is_parity) ==
    IF t.primitive = "RAMB18E1"
    THEN Ramb36MapToBitstream("RAMB36E1", t.bitstream_offset,
             bit_addr + (IF t.is_top THEN (IF is_parity THEN 2048 ELSE 16384) ELSE 0),
             is_parity)
    ELSE Ramb36MapToBitstream(t.primitive, t.bitstream_offset, bit_addr, is_parity)

\* bram::extract, bram::inject: the length in bits and in bytes
BitLength(t, is_parity) == (IF is_parity THEN t.parity_bits ELSE t.data_bits) * t.num_words
ByteLength(t, is_parity) == (BitLength(t, is_parity) + 7) \div 8

\* The access of bit i of the tile raises no error (map_to_bitstream, then
\* check_frame_data_range in read_frame_data_bit / write_frame_data_bit)
BitAccessOk(t, i, is_parity) ==
    /\ MapToBitstream(t, i, is_parity) # OutOfRange
    /\ FrameDataRangeOk(MapFrameDataOffset(MapToBitstream(t, i, is_parity) \div 8), 1, t.slr)

\* The bit position in the buffer that read_frame_data_bit / write_frame_data_bit use
\* for bit i of the tile
BufferBit(t, i, is_parity) ==
    LET b == MapToBitstream(t, i, is_parity)
    IN  FrameDataIndex(MapFrameDataOffset(b \div 8), t.slr) * 8 + (b % 8)

\* The number of bits the loop of inject / extract handles before an access raises
HandledBits(t, is_parity) ==
    LET bad == { i \in 0 .. (BitLength(t, is_parity) - 1) : ~BitAccessOk(t, i, is_parity) }
    IN  IF bad = {} THEN BitLength(t, is_parity)
        ELSE CHOOSE i \in bad : \A j \in bad : i <= j

\* Bit i of the byte vector data
DataBit(data, i) == Bit(data[(i \div 8) + 1], i % 8) = 1

\* The frame data after the loop of bram::inject has written bits 0 .. n-1 of data
Injected(t, is_parity, data, n) ==
    LET ones   == { BufferBit(t, i, is_parity) :
                      i \in { j \in 0 .. (n - 1) : DataBit(data, j) } }
        zeros  == { BufferBit(t, i, is_parity) :
                      i \in { j \in 0 .. (n - 1) : ~DataBit(data, j) } }
        twice  == ones \cap zeros
        last(p) == CHOOSE i \in 0 .. (n - 1) :
                      /\ BufferBit(t, i, is_parity) = p
                      /\ \A j \in (i + 1) .. (n - 1) : BufferBit(t, j, is_parity) # p
    IN  ((frame_bits \ zeros) \ twice) \cup (ones \ twice)
          \cup { p \in twice : DataBit(data, last(p)) }

\* The byte vector bram::extract assembles
Extracted(t, is_parity) ==
    LET v(i) == IF i < BitLength(t, is_parity) /\ BufferBit(t, i, is_parity) \in frame_bits
                THEN 2 ^ (i % 8) ELSE 0
    IN  [ k \in 1 .. ByteLength(t, is_parity) |->
            v(8 * k - 8) + v(8 * k - 7) + v(8 * k - 6) + v(8 * k - 5)
            + v(8 * k - 4) + v(8 * k - 3) + v(8 * k - 2) + v(8 * k - 1) ]

\* Byte vectors handed to inject: of the length of the tile (ones, a pattern) and one
\* byte short
Vectors(n) ==
    { [k \in 1 .. n |-> 255], [k \in 1 .. n |-> (k * 37) % 256],
      [k \in 1 .. (n - 1) |-> 0] }

bramFrame ==
    <<data_, idcode, accept_readback, stop_at, cur, slr, base, cfg_pos, cfg_end,
      current_write, current_reg, ctorVars, slrs_, packets, engineVars>>

\* bram::inject
Inject ==
    /\ pcL = "done"
    /\ \E t \in Tiles, inject_parity \in BOOLEAN :
         \E data \in Vectors(ByteLength(t, inject_parity)) :
           LET fits == Len(data) = ByteLength(t, inject_parity)
               n    == IF fits THEN HandledBits(t, inject_parity) ELSE 0
           IN  /\ frame_bits' = Injected(t, inject_parity, data, n)
               /\ last_op' = <<[ name |-> "inject", tile |-> t, parity |-> inject_parity,
                                 data |-> data, before |-> frame_bits,
                                 raised |-> ~fits \/ n < BitLength(t, inject_parity) ]>>
    /\ pcL' = "injected"
    /\ UNCHANGED bramFrame

\* bram::extract, for the tile of the latest inject
Extract ==
    /\ pcL = "injected"
    /\ \E t \in { last_op[1].tile }, extract_parity \in BOOLEAN :
         LET raised == HandledBits(t, extract_parity) < BitLength(t, extract_parity)
         IN  last_op' = <<[ name |-> "extract", tile |-> t, parity |-> extract_parity,
                            raised |-> raised,
                            result |-> IF raised THEN <<>> ELSE Extracted(t, extract_parity),
                            injected |-> last_op[1] ]>>
    /\ pcL' = "used"
    /\ UNCHANGED <<frame_bits, bramFrame>>

\* ------------------------------------------------------------------------
\* Specifications
\* ------------------------------------------------------------------------

EngineIdle ==
    /\ calls = <<>>
    /\ ctx = <<>>
    /\ guards = <<>>
    /\ pc = "idle"
    /\ result = <<>>
    /\ events = <<>>
    /\ lastPkt = <<>>
    /\ snap = <<>>
    /\ scope = <<>>
    /\ lastRestore = <<>>

LoadLocalsIdle ==
    /\ pcL = "idle"
    /\ cur = 0 /\ slr = 0 /\ base = 0 /\ cfg_pos = 0 /\ cfg_end = 0
    /\ current_write = FALSE /\ current_reg = NoReg
    /\ substreams = <<>> /\ main_idcode = NoIdcode
    /\ have_frame_data = FALSE /\ is_readback_ = FALSE
    /\ slrs_ = <<>>
    /\ packets = <<>>
    /\ last_op = <<>>

LoadIdle ==
    /\ idcode \in { NoIdcode, IdcodeA }
    /\ accept_readback \in BOOLEAN
    /\ stop_at = 0
    /\ LoadLocalsIdle

\* The configuration engine processes a word stream
Init ==
    /\ frame_bits = {}
    /\ cfg \in EngineStreams
    /\ EngineIdle
    /\ data_ = <<>>
    /\ LoadIdle /\ idcode = NoIdcode /\ accept_readback = FALSE

Next ==
    \/ ProcessPackets
    \/ TolerateSync
    \/ ParseError
    \/ OnConfigNop
    \/ OnConfigRead
    \/ OnConfigRsvd
    \/ OnConfigWrite
    \/ OnConfigWriteError
    \/ OnConfigSlr
    \/ ReturnSlr
    \/ Finish
    \/ Unwind

Spec == Init /\ [][Next]_vars

\* A bitstream file is loaded (bitstream::load_bitstream)
InitLoad ==
    /\ frame_bits = {}
    /\ data_ \in LoadFiles
    /\ LoadIdle
    /\ cfg = <<>>
    /\ EngineIdle

NextLoad ==
    \/ LoadBitstream
    \/ ParseEnter
    \/ ParseNoSync
    \/ LoadPacket
    \/ LoadSlrSwitch
    \/ LoadSyncBreak
    \/ LoadParseError
    \/ LoadCallbackError
    \/ ParseReturn
    \/ LoadRetain
    \/ LoadNoFrameData
    \/ LoadRaw
    \/ LoadRawError
    \/ ReadFrameDataBit
    \/ ReadFrameDataBitError
    \/ WriteFrameDataBit
    \/ WriteFrameDataBitError
    \/ StripCrcChecks
    \/ StripCrcChecksAgain
    \/ EditEnter
    \/ EditStep
    \/ EditReturn
    \/ EditEnd

SpecLoad == InitLoad /\ [][NextLoad]_vars

\* A buffer is parsed with a callback that returns false once (bitstream::parse)
InitParse ==
    /\ frame_bits = {}
    /\ data_ \in LoadFiles
    /\ idcode = NoIdcode /\ accept_readback = FALSE
    /\ stop_at \in 1 .. (MaxLoadPackets + 1)
    /\ LoadLocalsIdle
    /\ cfg = <<>>
    /\ EngineIdle

NextParse ==
    \/ ParseAll
    \/ ParseEnter
    \/ ParseNoSync
    \/ ParseContinue
    \/ ParseSwitch
    \/ ParseStop
    \/ LoadSyncBreak
    \/ LoadParseError
    \/ ParseReturn
    \/ ParseEnd

SpecParse == InitParse /\ [][NextParse]_vars

\* Well-formed packets: TYPE1 packets with and without payload, TYPE1/TYPE2 pairs
DecodePackets ==
    { <<T1(OP_NOP, REG_CRC, 0)>>,
      PktIdcode(IdcodeA), PktFar(1), PktFdri(FrameA),
      <<T1(OP_READ, REG_STAT, 1), Num(0)>>,
      <<T1(OP_WRITE, REG_FDRI, 2), FrameA, FrameB>>,
      <<T1(OP_WRITE, REG_FDRI, 0), T2(OP_WRITE, 1), FrameB>>,
      <<T1(OP_WRITE, REG_FDRI, 0), T2(OP_WRITE, 2), FrameA, FrameB>>,
      <<T1(OP_READ, REG_FDRO, 0), T2(OP_READ, 1), FrameA>>,
      <<T1(OP_READ, REG_FDRO, 0), T2(OP_READ, 2), FrameA, FrameB>> }

RECURSIVE DecodeBodies(_)
DecodeBodies(n) ==
    IF n = 0 THEN { <<>> }
    ELSE { p \o r : p \in DecodePackets, r \in DecodeBodies(n - 1) }

\* The sync word and up to MaxPackets well-formed packets
DecodeStreams ==
    { <<FPGA_SYNC_WORD_LE>> \o b : b \in UNION { DecodeBodies(n) : n \in 0 .. MaxPackets } }

\* The same stream is handed to the configuration engine (as words) and to
\* bitstream::parse (as bytes) with a callback that always returns true
InitDecode ==
    /\ frame_bits = {}
    /\ cfg \in DecodeStreams
    /\ EngineIdle
    /\ data_ = Flatten(cfg)
    /\ idcode = NoIdcode /\ accept_readback = FALSE
    /\ stop_at = 0
    /\ LoadLocalsIdle

NextDecode ==
    \/ ProcessPackets
    \/ OnConfigNop
    \/ OnConfigRead
    \/ OnConfigWrite
    \/ Finish
    \/ ParseAll
    \/ ParseEnter
    \/ ParseContinue
    \/ ParseReturn
    \/ ParseEnd

SpecDecode == InitDecode /\ [][NextDecode]_vars

\* parse runs to its end: no step of it is postponed forever
SpecParseLive == InitParse /\ [][NextParse]_vars /\ WF_vars(NextParse)

\* The frame data of the first frames of RAMB36_X0Y0 and its neighbours, with every
\* third bit set
SomeFrameBits == { 8 * 1925464 + 3 * k : k \in 0 .. 4095 }

\* A loaded bitstream with one SLR is handed to bram::inject and bram::extract; its frame
\* data holds every tile, or ends inside RAMB36_X0Y0
InitBram ==
    /\ \E content \in { <<{}, 2000000>>, <<SomeFrameBits, 2000000>>,
                       <<SomeFrameBits, 1950000>> } :
         /\ frame_bits = content[1]
         /\ slrs_ = <<[NewSlrInfo EXCEPT !.frame_data_offset = 0,
                                         !.frame_data_size = content[2]]>>
    /\ data_ = <<>>
    /\ idcode = NoIdcode /\ accept_readback = FALSE /\ stop_at = 0
    /\ pcL = "done"
    /\ cur = 0 /\ slr = 0 /\ base = 0 /\ cfg_pos = 0 /\ cfg_end = 0
    /\ current_write = FALSE /\ current_reg = NoReg
    /\ substreams = <<>> /\ main_idcode = NoIdcode
    /\ have_frame_data = TRUE /\ is_readback_ = FALSE
    /\ packets = <<>>
    /\ last_op = <<>>
    /\ cfg = <<>>
    /\ EngineIdle

NextBram ==
    \/ Inject
    \/ Extract

SpecBram == InitBram /\ [][NextBram]_vars

\* ========================================================================
\* Properties of the configuration engine
\* ========================================================================

\* The callbacks that ran in the context numbered cid
EventsOf(cid) == { i \in DOMAIN events : events[i].cid = cid }

IsWrite(e, reg) == e.op = OP_WRITE /\ e.reg = reg

\* The data word data[0] of a callback
Data0(e) == cfg[e.dbeg]

MaxOf(S) == CHOOSE i \in S : \A j \in S : j <= i

\* The latest header was dispatched to a callback that returned (no exception)
Dispatched == lastPkt # <<>> /\ lastPkt[1].kind = "pkt" /\ events # <<>>
              /\ Last(events).hdrpos = lastPkt[1].hdrpos

FrameAddrs == { Num(0), Num(1), Num(2) }

\* C1: can_write_frame(a) is true exactly when write_mode is overwrite, or write_mode is
\* write_once and a has not been marked written in this context (never in read_only).
C1_CanWriteFrame ==
    ctx # <<>> =>
        \A a \in FrameAddrs :
            CanWriteFrame(Active, a) <=>
                \/ Active.write_mode = overwrite
                \/ Active.write_mode = write_once /\ a \notin Active.write_bitmap

\* The write mode the CMD writes seen by context cid select
ModeCmds(cid) ==
    { i \in EventsOf(cid) :
        /\ IsWrite(events[i], REG_CMD) /\ events[i].wc >= 1
        /\ Data0(events[i]) \in { Num(CMD_NUL), Num(CMD_WCFG), Num(CMD_MFW) } }

SelectedMode(cid) ==
    IF ModeCmds(cid) = {} THEN read_only
    ELSE LET d == Data0(events[MaxOf(ModeCmds(cid))])
         IN  IF d = Num(CMD_NUL) THEN read_only
             ELSE IF d = Num(CMD_WCFG) THEN write_once
             ELSE overwrite

\* C2: the write mode of the active context, and of every suspended parent context, is
\* the one selected by the last NUL / WCFG / MFW command written in that context, or
\* read_only if there was none.
C2_WriteMode ==
    /\ ctx # <<>> => Active.write_mode = SelectedMode(Last(scope))
    /\ \A k \in 2 .. Len(guards) : guards[k][1].write_mode = SelectedMode(scope[k - 1])

\* C2 witness: overwrite was selected by MFW and a later CMD write (DESYNC) kept it.
C2_Witness ==
    /\ ctx # <<>> /\ Active.write_mode = overwrite
    /\ Dispatched /\ IsWrite(Last(events), REG_CMD)
    /\ Data0(Last(events)) = Num(CMD_DESYNC)

\* C3: when a guard is destroyed (the nested payload ended, or an exception leaves it)
\* the active context is the one that was active when the guard was constructed,
\* unchanged.
C3_ContextRestored ==
    lastRestore # <<>> => lastRestore[1].restored = lastRestore[1].expected

\* C3 witness: an exception left a nested payload that had selected overwrite, and the
\* parent is back in the write_once mode it had selected before.
C3_Witness ==
    /\ lastRestore # <<>>
    /\ lastRestore[1].how = "unwind" /\ lastRestore[1].depth = 1
    /\ lastRestore[1].dropped[1].write_mode = overwrite
    /\ ctx # <<>> /\ Active.write_mode = write_once /\ Active.slr_index = 0

\* The RSVD30 writes whose payload encloses the word at pos
EnclosingSlrWrites(pos) ==
    { j \in DOMAIN events :
        /\ IsWrite(events[j], REG_RSVD30)
        /\ events[j].dbeg <= pos /\ pos < events[j].dbeg + events[j].wc }

\* C4: every callback runs in a context whose slr_index is the number of RSVD30 writes
\* that enclose its packet.
C4_SlrIndex ==
    \A i \in DOMAIN events :
        events[i].slr_index = Cardinality(EnclosingSlrWrites(events[i].hdrpos))

\* C4 witness: a packet, a nested sub-stream of two packets, a packet; done.
C4_Witness ==
    /\ pc = "done" /\ Len(events) = 5
    /\ [i \in 1 .. 5 |-> events[i].slr_index] = <<0, 0, 1, 1, 0>>

\* C5: an FDRI or MFWR write in read_only mode, and an MFWR write in write_once mode,
\* raises an error.
C5_UnexpectedWrite ==
    ( /\ lastPkt # <<>> /\ lastPkt[1].kind = "pkt" /\ lastPkt[1].op = OP_WRITE
      /\ events # <<>> /\ Last(events).hdrpos = lastPkt[1].hdrpos
      /\ \/ lastPkt[1].reg \in {REG_FDRI, REG_MFWR} /\ Last(events).mode = read_only
         \/ lastPkt[1].reg = REG_MFWR /\ Last(events).mode = write_once )
    => pc \in {"error", "failed"}

\* C6: after the sequence WCFG, FDRI f0, MFW, (FAR 1, MFWR), (FAR 2, MFWR), WCFG, FAR 1,
\* FDRI f1 the frames 0, 1 and 2 are marked written in the context.
C6_MfwSequence ==
    (cfg \in MfwStreams /\ pc = "run" /\ Top.pos = Top.end)
    => FrameAddrs \subseteq Active.write_bitmap

\* C7 (as claimed): an IDCODE write in a context that holds a different idcode raises
\* an error.
C7_IdcodeMismatch ==
    ( /\ Dispatched /\ IsWrite(Last(events), REG_IDCODE)
      /\ Last(events).idcode # <<>>
      /\ Last(events).idcode # <<Data0(Last(events))>> )
    => pc \in {"error", "failed"}

IdcodeWrites(cid) ==
    { i \in EventsOf(cid) : IsWrite(events[i], REG_IDCODE) /\ events[i].wc >= 1 }

\* C7 (amended): an IDCODE write replaces the idcode of the context, also when the
\* context holds a different value, and raises no error: the context holds the value
\* of the last IDCODE write it has seen.
C7_IdcodeReplaced ==
    /\ ctx # <<>> =>
          Active.idcode = IF IdcodeWrites(Last(scope)) = {} THEN <<>>
                          ELSE <<Data0(events[MaxOf(IdcodeWrites(Last(scope)))])>>
    /\ (Dispatched /\ IsWrite(Last(events), REG_IDCODE)) => pc \notin {"error", "failed"}

\* C7 witness: the context held IdcodeA and an IDCODE write of IdcodeB was processed.
C7_Witness ==
    /\ Dispatched /\ IsWrite(Last(events), REG_IDCODE)
    /\ Last(events).idcode = <<IdcodeA>> /\ Data0(Last(events)) = IdcodeB
    /\ pc = "run" /\ Active.idcode = <<IdcodeB>>

\* hdr[10:0]
Bits10to0(hdr) == hdr[2] % 2048

\* hdr[26:0]
Bits26to0(hdr) == (hdr[1] % 2048) * Half + hdr[2]

\* The IDCODE values written by the packets handed to the constructor's callback
WrittenIdcodes ==
    { ReadWord(packets[i].payload_start) :
        i \in { j \in 1 .. Len(packets) :
                  /\ packets[j].op = OP_WRITE
                  /\ packets[j].reg = REG_IDCODE
                  /\ packets[j].word_count > 0 } }

\* C8: with an expected IDCODE other than 0xFFFFFFFF, loading does not succeed when
\* an IDCODE written in the bitstream differs from the expected value.
C8_ExpectedIdcode ==
    (pcL = "done" /\ idcode # NoIdcode) => WrittenIdcodes \subseteq { idcode }

\* C9: a TYPE1 header is decoded as op = hdr[28:27], register = hdr[17:13] and
\* word_count = hdr[10:0]; the next header is read after the payload words.
C9_Type1Decode ==
    (lastPkt # <<>> /\ PacketType(cfg[lastPkt[1].hdrpos]) = 1) =>
        LET l == lastPkt[1]
            hdr == cfg[l.hdrpos]
        IN  /\ l.op = (hdr[1] \div 2048) % 4
            /\ l.reg = (hdr[1] % 4) * 8 + hdr[2] \div 8192
            /\ l.wc1 = Bits10to0(hdr)
            /\ (l.kind = "pkt" /\ ~l.pair) => l.pos = l.hdrpos + 1 + Bits10to0(hdr)

\* C10: a zero-count TYPE1 header with op other than nop, followed by a TYPE2 header
\* whose payload fits, produces exactly one callback: op and register of the TYPE1
\* header, payload the hdr[26:0] words after the TYPE2 header.
C10_Type2Pair ==
    lastPkt # <<>> =>
        LET l == lastPkt[1]
            h == l.hdrpos
        IN  ( /\ PacketType(cfg[h]) = 1 /\ Bits10to0(cfg[h]) = 0 /\ PktOp(cfg[h]) # OP_NOP
              /\ h + 1 < l.end /\ PacketType(cfg[h + 1]) = 2
              /\ Bits26to0(cfg[h + 1]) <= l.end - (h + 2) )
            => LET evs == { i \in DOMAIN events : events[i].hdrpos \in {h, h + 1} }
               IN  /\ Cardinality(evs) = 1
                   /\ \A i \in evs :
                        /\ events[i].hdrpos = h
                        /\ events[i].op = PktOp(cfg[h])
                        /\ events[i].reg = PktReg(cfg[h])
                        /\ events[i].dbeg = h + 2
                        /\ events[i].wc = Bits26to0(cfg[h + 1])

\* C10 witness: a FAR write as TYPE1/TYPE2 pair (the TYPE2 header has other op bits)
\* was dispatched as one write to FAR with its one data word.
C10_Witness ==
    /\ Dispatched /\ lastPkt[1].pair
    /\ PktOp(cfg[lastPkt[1].hdrpos + 1]) # PktOp(cfg[lastPkt[1].hdrpos])
    /\ IsWrite(Last(events), REG_FAR) /\ Last(events).wc = 1
    /\ Active.far = Num(2)

\* The header positions of the callbacks run so far are ascending
InStreamOrder ==
    \A i, j \in DOMAIN events : i < j => events[i].hdrpos < events[j].hdrpos

\* The word at header position h is no TYPE1 header and not the sync word
BadHeader(h) == cfg[h] # FPGA_SYNC_WORD_LE /\ PacketType(cfg[h]) # 1

\* The word at header position h of a span ending at e is a zero-count TYPE1 header
\* with an op other than nop, and no TYPE2 header follows it
MissingType2(h, e) ==
    /\ PacketType(cfg[h]) = 1 /\ Bits10to0(cfg[h]) = 0 /\ PktOp(cfg[h]) # OP_NOP
    /\ (h + 1 = e \/ PacketType(cfg[h + 1]) # 2)

\* C11: a word in header position that is neither a TYPE1 header nor the sync word, and
\* a zero-count non-nop TYPE1 header without a TYPE2 header after it, raise an error;
\* no callback runs for that packet, and the callbacks run before it ran in stream order.
C11_MalformedPacket ==
    lastPkt # <<>> =>
        LET l == lastPkt[1]
        IN  (BadHeader(l.hdrpos) \/ MissingType2(l.hdrpos, l.end))
            => /\ pc \in {"error", "failed"}
               /\ \A i \in DOMAIN events : events[i].hdrpos < l.hdrpos
               /\ InStreamOrder

\* C11 witness: a packet was dispatched, then came a zero-count write header without a
\* TYPE2 header after it, and the error has left process_packets.
C11_Witness ==
    /\ pc = "failed" /\ events # <<>> /\ lastPkt # <<>>
    /\ MissingType2(lastPkt[1].hdrpos, lastPkt[1].end)

\* The word count the header(s) at position h of a span ending at e declare:
\* hdr[10:0] of the TYPE1 header, or hdr[26:0] of the TYPE2 header of a pair
DeclaredWordCount(h, e) ==
    IF /\ Bits10to0(cfg[h]) = 0 /\ PktOp(cfg[h]) # OP_NOP
       /\ h + 1 < e /\ PacketType(cfg[h + 1]) = 2
    THEN Bits26to0(cfg[h + 1])
    ELSE Bits10to0(cfg[h])

\* The words that remain in a span ending at e after the header(s) at position h
WordsAfterHeaders(h, e) ==
    IF /\ Bits10to0(cfg[h]) = 0 /\ PktOp(cfg[h]) # OP_NOP
       /\ h + 1 < e /\ PacketType(cfg[h + 1]) = 2
    THEN e - (h + 2)
    ELSE e - (h + 1)

\* C12: no callback receives a payload that extends past the end of the input; when
\* the declared word count of a packet exceeds the words remaining after its header(s)
\* an error is raised and no callback runs for that packet.
C12_PayloadBounds ==
    /\ \A i \in DOMAIN events : events[i].dbeg + events[i].wc <= Len(cfg) + 1
    /\ lastPkt # <<>> =>
          LET l == lastPkt[1]
          IN  ( /\ PacketType(cfg[l.hdrpos]) = 1
                /\ DeclaredWordCount(l.hdrpos, l.end) > WordsAfterHeaders(l.hdrpos, l.end) )
              => /\ pc \in {"error", "failed"}
                 /\ \A i \in DOMAIN events : events[i].hdrpos # l.hdrpos

\* The callbacks that returned false (stop): of the callbacks of config_engine only
\* on_config_rsvd does
Stops == { i \in DOMAIN events : events[i].op = OP_RSVD }

\* C13: when a callback returns false, no callback runs for any later packet and the
\* overall result reports failure, also when the callback ran inside a nested payload.
C13_StopHalts ==
    /\ \A i \in Stops : i = Len(events)
    /\ (Stops # {} /\ pc = "done") => ~result[1].valid

\* C14: in bitstream::parse over a whole buffer, once the callback has returned false no
\* further callback is invoked and the parse ends without raising an error.
C14_ParseStops ==
    (stop_at > 0 /\ Len(packets) >= stop_at) =>
        /\ Len(packets) = stop_at
        /\ pcL # "failed"

\* A step in which the callback of a read, reserved or nop packet runs
IgnoredStep ==
    /\ Len(events') = Len(events) + 1
    /\ Last(events').op \in {OP_READ, OP_RSVD, OP_NOP}

\* C15 (as claimed): packets whose op is read, reserved or nop leave the active context
\* unchanged and do not stop decoding.
C15_Ignored ==
    [][IgnoredStep => (ctx' = ctx /\ Last(calls').valid)]_vars

\* C15 (amended): packets whose op is read, reserved or nop leave the active context
\* unchanged; read and nop packets do not stop decoding, a packet with the reserved op
\* stops the decoding of the stream it is in.
C15_IgnoredButRsvdStops ==
    [][IgnoredStep =>
         /\ ctx' = ctx
         /\ Last(calls').valid <=> Last(events').op # OP_RSVD]_vars

\* C15 witness: a read packet was ignored and the packet after it was dispatched; that
\* packet had the reserved op and ended the decoding with a failure status.
C15_Witness ==
    /\ pc = "done" /\ Len(events) = 2
    /\ events[1].op = OP_READ /\ events[2].op = OP_RSVD
    /\ ~result[1].valid

\* A bitstream object exists: a constructor has returned
Constructed == pcL \in {"done", "used"}

\* C16: every SLR descriptor of a bitstream object has a frame_data_size that is a
\* positive multiple of 4, and frame_data_offset + frame_data_size does not exceed the
\* size of the byte buffer.
C16_SlrDescriptors ==
    Constructed =>
        \A i \in DOMAIN slrs_ :
            /\ slrs_[i].frame_data_size > 0
            /\ slrs_[i].frame_data_size % 4 = 0
            /\ slrs_[i].frame_data_offset + slrs_[i].frame_data_size <= Len(data_)

\* The packets the constructor takes as readback frame data (FDRO)
FdroPackets ==
    { i \in DOMAIN packets :
        packets[i].op = OP_NOP /\ packets[i].reg = REG_FDRO /\ packets[i].word_count > 0 }

\* The constructor's callback threw for packet i (parse is left at the packet's header)
Rejected(i) ==
    /\ i = Len(packets) /\ pcL = "failed" /\ last_op = <<>>
    /\ cfg_pos = packets[i].storage_offset

\* The frame data of its sub-stream comes from FDRO packet i: the callback took it and
\* took no later FDRO packet of the same sub-stream
FrameDataFrom(i) ==
    /\ ~Rejected(i)
    /\ \A j \in FdroPackets :
         (j > i /\ packets[j].stream_index = packets[i].stream_index) => Rejected(j)

Accessed(name) == last_op # <<>> /\ last_op[1].name = name

\* Bit offset b lies in the frame data of SLR s
InRange(b, s) == s < Len(slrs_) /\ b \div 8 < slrs_[s + 1].frame_data_size

\* The byte of the buffer that holds bit offset b of SLR s:
\* frame_data_offset(s) + ((b/8) & ~3) + (3 - ((b/8) & 3))
SwappedByte(b, s) ==
    slrs_[s + 1].frame_data_offset + ((b \div 8) \div 4) * 4 + (3 - ((b \div 8) % 4))

\* C18: for an in-range bit offset b of SLR s, write_frame_data_bit(b, v, s) followed by
\* read_frame_data_bit(b, s) returns v, and the write changes no bit of the buffer other
\* than bit b mod 8 of the byte at frame_data_offset(s) + ((b/8) & ~3) + (3 - ((b/8) & 3)).
C18_WriteThenRead ==
    Accessed("write_frame_data_bit") =>
        LET op == last_op[1]
        IN  InRange(op.bit_offset, op.slr_idx) =>
              /\ ~op.raised
              /\ ReadBit(op.bit_offset, op.slr_idx) = op.value
              /\ Len(data_) = Len(op.before)
              /\ \A j \in 0 .. (Len(data_) - 1), k \in 0 .. 7 :
                   (j # SwappedByte(op.bit_offset, op.slr_idx) \/ k # op.bit_offset % 8)
                   => Bit(data_[j + 1], k) = Bit(op.before[j + 1], k)

\* C18 witness: a bit of the second word of the frame data, set in the file, was cleared.
C18_Witness ==
    /\ Accessed("write_frame_data_bit") /\ ~last_op[1].raised
    /\ last_op[1].bit_offset = 39 /\ ~last_op[1].value
    /\ data_ # last_op[1].before

\* C19: the frame data accessors raise an error and leave the buffer unchanged when the
\* byte index of the bit offset is not below the frame_data_size of the SLR; an access
\* that raises no error touches only a byte of the frame data of that SLR.
C19_FrameDataRange ==
    (Accessed("write_frame_data_bit") \/ Accessed("read_frame_data_bit")) =>
        LET op == last_op[1]
            s  == op.slr_idx
        IN  /\ (s < Len(slrs_) /\ op.bit_offset \div 8 >= slrs_[s + 1].frame_data_size)
               => (op.raised /\ data_ = op.before)
            /\ ~op.raised =>
                 /\ slrs_[s + 1].frame_data_offset <= op.index
                 /\ op.index < slrs_[s + 1].frame_data_offset + slrs_[s + 1].frame_data_size
                 /\ \A j \in 1 .. Len(data_) : j # op.index + 1 => data_[j] = op.before[j]

\* C19 witness: a write at the first bit behind the frame data of the second SLR raised
\* an error.
C19_Witness ==
    /\ Accessed("write_frame_data_bit") /\ last_op[1].raised
    /\ last_op[1].slr_idx = 1 /\ Len(slrs_) = 2
    /\ last_op[1].bit_offset = slrs_[2].frame_data_size * 8

\* strip_crc_checks has returned or raised an error
StripDone ==
    last_op # <<>> /\ last_op[1].name = "strip_crc_checks" /\ pcL \in {"used", "failed"}

\* The packets of the buffer whose header is 0x30000001
CrcPackets == { i \in 1 .. Len(packets) : packets[i].hdr = <<12288, 1>> }

\* Byte offset j lies in the packet pkt (header and payload)
InPacket(j, pkt) == pkt.storage_offset <= j /\ j < pkt.payload_end

\* C20: strip_crc_checks replaces each packet whose header is 0x30000001 by the bytes
\* 20 00 00 00 20 00 00 00, and changes no other byte of the buffer nor its length.
C20_StripCrcChecks ==
    StripDone =>
        /\ pcL = "used"
        /\ Len(data_) = Len(last_op[1].before)
        /\ \A i \in CrcPackets :
             SubSeq(data_, packets[i].storage_offset + 1, packets[i].storage_offset + 8)
                = <<32, 0, 0, 0, 32, 0, 0, 0>>
        /\ \A j \in 0 .. (Len(data_) - 1) :
             (\A i \in CrcPackets : ~InPacket(j, packets[i]))
             => data_[j + 1] = last_op[1].before[j + 1]

\* C20 witness: strip_crc_checks returned for a buffer with a CRC check and changed it.
C20_Witness ==
    /\ StripDone /\ pcL = "used"
    /\ CrcPackets # {}
    /\ data_ # last_op[1].before

\* C21: strip_crc_checks applied to an already stripped bitstream succeeds and leaves
\* every byte of the buffer unchanged.
C21_StripIdempotent ==
    (StripDone /\ last_op[1].round = 2) =>
        /\ pcL = "used"
        /\ data_ = last_op[1].before

\* C21 witness: the second strip_crc_checks returned for a bitstream whose CRC check
\* the first one had replaced.
C21_Witness ==
    /\ StripDone /\ last_op[1].round = 2 /\ pcL = "used"
    /\ CrcPackets # {}
    /\ \A i \in CrcPackets : ReadWord(packets[i].storage_offset) = <<8192, 0>>

\* ========================================================================
\* Properties of the block RAM tiles
\* ========================================================================

\* The size in bits of the frame data a tile is spread over (128 blocks of 0xCA0 bits,
\* 256 blocks of 0xBA0 bits)
TileSpan(t) == IF t.primitive = "RAMB36E2" THEN 256 * 2976 ELSE 128 * 3232

\* The frame data of the bitstream holds the whole tile
HoldsTile(t) == slrs_[t.slr + 1].frame_data_size * 8 >= t.bitstream_offset + TileSpan(t)

\* extract has run on the tile and parity selection of the preceding inject, which was
\* handed a vector of the correct length
RoundTrip ==
    /\ last_op # <<>> /\ last_op[1].name = "extract"
    /\ last_op[1].injected.tile = last_op[1].tile
    /\ last_op[1].injected.parity = last_op[1].parity
    /\ Len(last_op[1].injected.data) = ByteLength(last_op[1].tile, last_op[1].parity)
    /\ HoldsTile(last_op[1].tile)

\* C22: for every tile and either parity selection, injecting a byte vector of the
\* correct length and then extracting the same tile with the same parity selection
\* succeeds and returns exactly that vector.
C22_InjectExtract ==
    RoundTrip =>
        /\ ~last_op[1].injected.raised
        /\ ~last_op[1].raised
        /\ last_op[1].result = last_op[1].injected.data

\* inject has run on a RAMB36E1 or RAMB36E2 tile
InjectedRamb36 ==
    /\ last_op # <<>> /\ last_op[1].name = "inject"
    /\ last_op[1].tile.primitive \in { "RAMB36E1", "RAMB36E2" }

\* The bit offsets map_to_bitstream produces for the bits 0 .. n-1 of a tile
Offsets(t, is_parity, n) == { MapToBitstream(t, i, is_parity) : i \in 0 .. (n - 1) }

\* C23: for every RAMB36E1 and RAMB36E2 tile, no data bit (0..32767) and parity bit
\* (0..4095) are mapped to the same bit offset.
C23_DataParityDisjoint ==
    InjectedRamb36 =>
        /\ OutOfRange \notin Offsets(last_op[1].tile, FALSE, 32768)
        /\ OutOfRange \notin Offsets(last_op[1].tile, TRUE, 4096)
        /\ Offsets(last_op[1].tile, FALSE, 32768) \cap Offsets(last_op[1].tile, TRUE, 4096)
             = {}

\* C23 witness: all parity bits of a RAMB36E1 tile were set in empty frame data, which
\* then holds exactly the 4096 bits of the parity offsets.
C23_Witness ==
    /\ InjectedRamb36 /\ last_op[1].tile.primitive = "RAMB36E1"
    /\ last_op[1].parity /\ ~last_op[1].raised
    /\ last_op[1].before = {}
    /\ Cardinality(frame_bits) = 4096

\* inject has run on the data bits of a RAMB36E1 tile
InjectedRamb36e1Data ==
    /\ last_op # <<>> /\ last_op[1].name = "inject"
    /\ last_op[1].tile.primitive = "RAMB36E1" /\ ~last_op[1].parity

\* The tile-relative offset of data bit d of the tile t
TileOffset(t, d) == MapToBitstream(t, d, FALSE) - t.bitstream_offset

\* C24 as claimed: the lower 4 bits of the offset of data bit d come from
\* groupL_table[d & 0xF], the upper part is (d / 256) * 0xCA + groupH_table[d[7:4]].
C24_TablesAsClaimed ==
    InjectedRamb36e1Data =>
        \A d \in 0 .. 32767 :
            /\ TileOffset(last_op[1].tile, d) % 16 = groupL_table[(d % 16) + 1]
            /\ TileOffset(last_op[1].tile, d) \div 16
                 = (d \div 256) * 202 + groupH_table[((d \div 16) % 16) + 1]

\* C24 amended: the lower 4 bits of the offset of data bit d come from
\* groupL_table[d[7:4]], the upper part is (d / 256) * 0xCA + groupH_table[d & 0xF]; this
\* places the bits where the logic location file quoted in the source has them.
C24_TablesAmended ==
    InjectedRamb36e1Data =>
        /\ \A d \in 0 .. 32767 :
            /\ TileOffset(last_op[1].tile, d) % 16 = groupL_table[((d \div 16) % 16) + 1]
            /\ TileOffset(last_op[1].tile, d) \div 16
                 = (d \div 256) * 202 + groupH_table[(d % 16) + 1]
        /\ TileOffset(last_op[1].tile, 64) = 1
        /\ TileOffset(last_op[1].tile, 128) = 2
        /\ TileOffset(last_op[1].tile, 192) = 3
        /\ TileOffset(last_op[1].tile, 32) = 4
        /\ TileOffset(last_op[1].tile, 96) = 5
        /\ TileOffset(last_op[1].tile, 246) = 63
        /\ TileOffset(last_op[1].tile, 255) = 319
        /\ TileOffset(last_op[1].tile, 256) = 3232
        /\ TileOffset(last_op[1].tile, 32767) = 410783

\* C24 witness: all data bits of a RAMB36E1 tile were set in empty frame data, which
\* then holds exactly 32768 bits.
C24_Witness ==
    /\ InjectedRamb36e1Data /\ ~last_op[1].raised
    /\ last_op[1].before = {}
    /\ Cardinality(frame_bits) = 32768

\* inject has run on a RAMB18E1 tile
InjectedRamb18 ==
    last_op # <<>> /\ last_op[1].name = "inject" /\ last_op[1].tile.primitive = "RAMB18E1"

\* The other RAMB18E1 half of the RAMB36E1 tile of the half t
OtherHalf(t) == [t EXCEPT !.is_top = ~t.is_top,
                          !.y = IF t.is_top THEN t.y - 1 ELSE t.y + 1]

\* C30: the bit offsets of the top and the bottom RAMB18E1 of one RAMB36E1 are disjoint
\* and lie inside the data range and the parity range of the RAMB36E1, for every bit
\* index below num_words * data_bits and num_words * parity_bits; injecting into one half
\* changes no bit of the other half.
C30_HalvesDisjoint ==
    InjectedRamb18 =>
        LET t == last_op[1].tile
            o == OtherHalf(t)
        IN  /\ \A is_parity \in BOOLEAN :
                 /\ OutOfRange \notin Offsets(t, is_parity, BitLength(t, is_parity))
                 /\ Offsets(t, is_parity, BitLength(t, is_parity))
                      \cap Offsets(o, is_parity, BitLength(o, is_parity)) = {}
            /\ \A is_parity \in BOOLEAN :
                 \A i \in 0 .. (BitLength(o, is_parity) - 1) :
                    MapToBitstream(o, i, is_parity) # OutOfRange =>
                       (BufferBit(o, i, is_parity) \in frame_bits
                          <=> BufferBit(o, i, is_parity) \in last_op[1].before)

\* ========================================================================
\* Properties of the sub-streams of a bitstream
\* ========================================================================

\* The packets of the sub-stream that holds the frame data of the SLR descriptor info
StreamOf(info) ==
    LET src == CHOOSE i \in DOMAIN packets :
                   /\ packets[i].payload_start <= info.frame_data_offset
                   /\ info.frame_data_offset < packets[i].payload_end
    IN  { i \in DOMAIN packets : packets[i].stream_index = packets[src].stream_index }

\* C25: for every retained SLR of a loaded bitstream, also from the second and later
\* sub-streams, sync_offset is the offset in the byte buffer of the first byte behind the
\* sync word of its sub-stream, where the first packet header of the sub-stream is.
C25_SyncOffset ==
    pcL = "done" =>
        \A k \in DOMAIN slrs_ :
            /\ slrs_[k].sync_offset >= 4
            /\ ReadWord(slrs_[k].sync_offset - 4) = SYNC_WORD
            /\ \E i \in StreamOf(slrs_[k]) :
                 /\ packets[i].storage_offset = slrs_[k].sync_offset
                 /\ \A j \in StreamOf(slrs_[k]) : i <= j

\* parse (one sub-stream) has returned at the last complete word of a buffer that ends
\* with 1 to 3 extra bytes
AtTrailingBytes ==
    /\ cur > 0 /\ cur = cfg_end /\ cfg_pos = cfg_end
    /\ Len(data_) - cfg_end \in 1 .. 3

\* C26: bitstream::parse over a whole buffer tolerates 1 to 3 extra bytes after the last
\* complete configuration word: the parse completes without raising an error.
C26_TrailingBytes == AtTrailingBytes => pcL # "failed"

\* parse (one sub-stream) returns to the loop over the sub-streams
SubStreamReturns == pcL = "inner" /\ pcL' = "outer"

\* C27: every call of parse for one sub-stream that returns, returns a position strictly
\* beyond the position it started from, and bitstream::parse over the whole buffer
\* terminates (it returns or raises an error).
C27_Terminates ==
    /\ [][SubStreamReturns => cur' > cur]_vars
    /\ <>(pcL \in {"done", "failed"})

\* C27 witness: parse returned after a sub-stream was left at a write to register
\* 0b11110 that rewinds to its payload start.
C27_Witness ==
    /\ pcL = "done" /\ slr >= 2
    /\ \E i \in DOMAIN packets : IsSlrSwitch(packets[i])

\* C28: during bitstream load, the stream_index of every delivered packet is a valid
\* index into the list of sub-stream records, also when an earlier sub-stream delivered
\* no packet (a sync word immediately followed by another sync word).
C28_StreamIndexValid ==
    \A i \in DOMAIN packets : packets[i].stream_index < Len(substreams)

\* ========================================================================
\* The two packet decoders
\* ========================================================================

\* The payload-carrying packets as the engine's decoder reported them: op, register,
\* number of payload words, byte offsets of the payload
EnginePayloads ==
    LET carrying == SelectSeq(events, LAMBDA e : e.wc > 0)
    IN  [ k \in DOMAIN carrying |->
            [ op |-> carrying[k].op, reg |-> carrying[k].reg, word_count |-> carrying[k].wc,
              payload_start |-> 4 * (carrying[k].dbeg - 1),
              payload_end |-> 4 * (carrying[k].dbeg - 1 + carrying[k].wc) ] ]

\* The payload-carrying packets as the container's parser reported them
ParserPayloads ==
    LET carrying == SelectSeq(packets, LAMBDA pkt : pkt.word_count > 0)
    IN  [ k \in DOMAIN carrying |->
            [ op |-> carrying[k].op, reg |-> carrying[k].reg,
              word_count |-> carrying[k].word_count,
              payload_start |-> carrying[k].payload_start,
              payload_end |-> carrying[k].payload_end ] ]

\* C29: for every word-aligned stream of TYPE1 packets and TYPE1/TYPE2 pairs behind the
\* sync word, bitstream::parse and bitstream_engine::parse_packet agree on where each
\* packet ends and on the op, register and payload length of each payload-carrying
\* packet.
C29_DecodersAgree ==
    (pc \in {"done", "failed"} /\ pcL \in {"done", "failed"}) =>
        /\ pc = "done" /\ pcL = "done"
        /\ EnginePayloads = ParserPayloads

====
